---- MODULE Spec2Model ----
(***************************************************************************)
(* ds4u: DualSense companion.  A model of                                   *)
(*   - the daemon (src/src/daemon.rs): the session slot, the update gate,   *)
(*     the reconnection thread and the per-client handler threads;          *)
(*   - the flashing frontend (src/src/app.rs) and the firmware updater      *)
(*     (src/src/dualsense.rs), added below.                                 *)
(* Each thread is a process with a program counter; a step of a process is  *)
(* the code between two accesses to shared state (the atomic flag, the      *)
(* session mutex, the socket).                                              *)
(***************************************************************************)
EXTENDS Integers, Sequences, FiniteSets, TLC

(***************************************************************************)
(* Bounds of the model.                                                     *)
(***************************************************************************)
NumClients == 2

Clients == 1..NumClients

\* Iterations of firmware_wait_status after which its 30 s cap has elapsed.
MaxPolls == 2

(***************************************************************************)
(* Program constants: src/src/common.rs, src/src/dualsense.rs,              *)
(* src/src/firmware.rs.                                                     *)
(***************************************************************************)
DS_PID == 3302
DSE_PID == 3570
FIRMWARE_SIZE == 950272
DS_INPUT_REPORT_USB == 1
DS_INPUT_REPORT_USB_SIZE == 64
DS_INPUT_REPORT_BT == 49
DS_INPUT_REPORT_BT_SIZE == 78
DS_STATUS_CHARGING_SHIFT == 4
DS_BATTERY_THRESHOLD == 10
\* firmware_start / firmware_write: bytes per feature report, prologue, page
ChunkSize == 57
PrologueSize == 256
PageSize == 32768
\* check_firmware_compatibility: the smallest payload it reads
MinHeaderSize == 128
\* download_firmware: the read buffer
ReadBufferSize == 8196

Min(a, b) == IF a <= b THEN a ELSE b
Max(a, b) == IF a >= b THEN a ELSE b

(***************************************************************************)
(* IPC protocol: src/src/ipc.rs.                                            *)
(***************************************************************************)
SetUpdateModeOn == "SetUpdateMode{active:true}"
SetUpdateModeOff == "SetUpdateMode{active:false}"

\* Commands that reach dispatch() with device I/O behind them.
IoCommands ==
    {"GetBattery", "GetInputState", "GetFirmwareInfo",
     "SetLightbar", "SetLightbarEnabled", "SetPlayerLeds", "SetMic",
     "SetMicLed", "SetTriggerOff", "SetTriggerEffect", "SetVibration",
     "SetSpeaker", "SetVolume"}

DaemonCommand ==
    {"Ping", "GetControllerInfo", SetUpdateModeOn, SetUpdateModeOff} \cup IoCommands

\* A request line: a serialized DaemonCommand, or a line serde_json rejects.
Malformed == "<malformed>"
RequestLines == DaemonCommand \cup {Malformed}

DaemonResponse ==
    {"Pong", "Ok", "Error", "Battery", "InputState", "FirmwareInfo",
     "ControllerInfo", "NoDevice"}

SuccessResponses ==
    {"Pong", "Ok", "Battery", "InputState", "FirmwareInfo", "ControllerInfo"}

\* The owner of the device mutex.
Unlocked == <<"free">>
HeldByRecon == <<"recon">>
HeldBy(c) == <<"handler", c>>

NoResponse == "<none>"
NoRequest == "<none>"

VARIABLES
    \* DaemonState
    device,              \* Mutex<Option<DualSense>>: "None" or "Some"
    update_in_progress,  \* AtomicBool
    device_lock,         \* owner of the device mutex
    \* threads
    recon_pc,            \* device_connection_loop: "load", "lock", "open"
    handler_pc,          \* handle_client per connection
    request,             \* the request line a client sent, until it is answered
    response,            \* the response line written, until the client reads it
    \* environment
    plugged,             \* a matching controller is enumerable and can be opened
    \* history
    handed_over,         \* Ok was replied to SetUpdateMode{active:true} and no
                         \* SetUpdateMode{active:false} has been processed since
    opened_in_gate,      \* the held session was stored while the flag was true
    error_of,            \* why the unread response of a connection is Error:
                         \* "parse", "gate", "device", else "none"
    \* DualSense: the session the updater drives
    is_bt,               \* transport of the session
    product_id,          \* product id of the connected device
    update_mode,         \* the session's advisory AtomicBool
    input_report,        \* what the device returns to the next read_timeout
    \* the firmware payload and the progress sink
    fw_len,              \* firmware_data.len()
    fw_pid,              \* u16 LE at firmware_data[0x62..0x64]
    sink,                \* the progress closure passed to update_firmware
    \* download_firmware
    dl_len,              \* length of the response body
    dl_total,            \* total_size: content_length or FIRMWARE_SIZE
    downloaded,          \* bytes read so far
    \* update_firmware
    fw_pc,               \* position in download_firmware / update_firmware
    fw_result,           \* Pending, "Ok" or the error message
    offset,              \* loop variable: prologue offset / page offset
    chunk_offset,        \* loop variable of the inner loop of firmware_write
    polls,               \* iterations of firmware_wait_status that asked to retry
    \* history
    delivered,           \* last Progress value sent to the channel, -1 if none
    delivered_by,        \* the operation that sent it
    n_progress,          \* number of Progress events sent
    reports,             \* number of 0xF4 feature reports sent
    last_report,         \* phase byte, payload offset and size of the last one
    poll_done,           \* phase whose poll returned done since the last report
    \* DS4UApp and DaemonManager: the frontend
    fe_pc,               \* where the UI thread is: "ui" between two calls
    controller,          \* Option<Arc<Mutex<DualSense>>>: "None" or "Some"
    daemon_client,       \* DaemonManager.client is Some
    fw_used_daemon,
    firmware_updating,
    channel,             \* terminal events sent to firmware_progress_rx, not yet read
    \* the flashing worker thread
    worker_pc,
    \* history
    n_status,            \* number of Status events sent
    n_terminal,          \* number of Complete and Error events sent
    terminal,            \* the last of them, "none" if none
    \* IpcClient: a connection whose request() gave up on recv
    abandoned,           \* a request() on the connection returned with the read
                         \* timeout: its reply is still to come or unread
    mispaired,           \* a request() on the connection has returned the reply
                         \* to an earlier command
    \* DualSense: the output side of one session
    output_seq,          \* DualSense.output_seq
    n_written,           \* output reports the HID write accepted, mod 16
    handed,              \* the buffer the latest operation handed to the HID
                         \* write, <<>> if it handed none
    last_op,             \* the latest operation on the session and its result
    hid_in_update,       \* an input read or an output write reached the HID
                         \* handle while update_mode was true
    n_ops,               \* operations called on the session so far
    \* firmware_wait_status: one poll
    ws_expected,         \* the phase the caller expects
    ws_answer,           \* buf[1], buf[2] of the FW_STATUS feature report
    ws_out,              \* "<pending>", or what the iteration did
    \* a function of the codec or the transform, applied once
    fn_arg,              \* the arguments it is called with
    fn_result,           \* what it returned, once it has
    \* DS4UApp: input polling
    ipc,                 \* DS4UApp.ipc is Some when polling starts
    input_poll_stop,     \* DS4UApp.input_poll_stop is Some
    stop_flag,           \* the AtomicBool the polling thread loads
    poll_pc,             \* the polling thread: "none" before it is spawned
    ctrl_lock,           \* owner of the Mutex<DualSense> of the frontend
    \* DS4UApp of a second frontend attached to the same daemon
    other_pc,            \* where its UI thread is: "ui" between two calls
    other_product_id,    \* its controller_product_id is Some
    latest_version,      \* its firmware_latest_version is Some
    checking_latest,     \* its firmware_checking_latest
    fetch_pc,            \* the thread of fetch_latest_verision_async
    latest_rx            \* events sent to its firmware_progress_rx, not yet read

daemon_vars ==
    <<device, update_in_progress, device_lock, recon_pc, handler_pc, request,
      response, plugged, handed_over, opened_in_gate, error_of>>

session_vars == <<is_bt, product_id, update_mode, input_report>>

fw_vars ==
    <<fw_len, fw_pid, sink, dl_len, dl_total, downloaded, fw_pc, fw_result,
      offset, chunk_offset, polls, delivered, delivered_by, n_progress,
      reports, last_report, poll_done>>

app_vars ==
    <<fe_pc, controller, daemon_client, fw_used_daemon, firmware_updating,
      channel, worker_pc, n_status, n_terminal, terminal>>

client_vars == <<abandoned, mispaired>>

harness_vars == <<output_seq, n_written, handed, last_op, hid_in_update, n_ops>>

wait_vars == <<ws_expected, ws_answer, ws_out>>

pure_vars == <<fn_arg, fn_result>>

poll_vars == <<ipc, input_poll_stop, stop_flag, poll_pc, ctrl_lock>>

other_vars ==
    <<other_pc, other_product_id, latest_version, checking_latest, fetch_pc,
      latest_rx>>

rest_vars ==
    <<client_vars, harness_vars, wait_vars, pure_vars, poll_vars, other_vars>>

nondaemon_vars == <<session_vars, fw_vars, app_vars, rest_vars>>

vars == <<daemon_vars, nondaemon_vars>>

(***************************************************************************)
(* DaemonState::new and run_daemon.                                         *)
(***************************************************************************)
DaemonInit ==
    /\ device = "None"
    /\ update_in_progress = FALSE
    /\ device_lock = Unlocked
    /\ recon_pc = "load"
    /\ handler_pc = [c \in Clients |-> "read"]
    /\ request = [c \in Clients |-> NoRequest]
    /\ response = [c \in Clients |-> NoResponse]
    /\ plugged \in BOOLEAN
    /\ handed_over = FALSE
    /\ opened_in_gate = FALSE
    /\ error_of = [c \in Clients |-> "none"]

(***************************************************************************)
(* Values of the updater's variables while no operation runs.               *)
(***************************************************************************)
Pending == "<pending>"
NoReport == [phase |-> -1, offset |-> 0, size |-> 0]
\* read_timeout fails / the report has been read
ReadError == [size |-> -1, id |-> 0, status |-> 0]

HistoryInit ==
    /\ delivered = -1
    /\ delivered_by = "none"
    /\ n_progress = 0
    /\ reports = 0
    /\ last_report = NoReport
    /\ poll_done = -1

LoopInit ==
    /\ fw_result = Pending
    /\ offset = 0
    /\ chunk_offset = 0
    /\ polls = 0
    /\ downloaded = 0

FwIdle ==
    /\ is_bt = FALSE
    /\ product_id = DS_PID
    /\ update_mode = FALSE
    /\ input_report = ReadError
    /\ fw_len = 0
    /\ fw_pid = DS_PID
    /\ sink = "flash_file"
    /\ dl_len = 0
    /\ dl_total = 0
    /\ fw_pc = "idle"
    /\ LoopInit
    /\ HistoryInit

\* DS4UApp::new, before any flash.
AppIdle ==
    /\ fe_pc = "ui"
    /\ controller = "None"
    /\ daemon_client = FALSE
    /\ fw_used_daemon = FALSE
    /\ firmware_updating = FALSE
    /\ channel = <<>>
    /\ worker_pc = "none"
    /\ n_status = 0
    /\ n_terminal = 0
    /\ terminal = "none"

\* IpcClient::connect
ClientIdle ==
    /\ abandoned = [c \in Clients |-> FALSE]
    /\ mispaired = [c \in Clients |-> FALSE]

\* DualSense::new
NoOp == [name |-> "none", updating |-> FALSE, ok |-> TRUE, err |-> "",
         hid |-> FALSE]

SessionIdle ==
    /\ output_seq = 0
    /\ n_written = 0
    /\ handed = <<>>
    /\ last_op = NoOp
    /\ hid_in_update = FALSE
    /\ n_ops = 0

WaitIdle ==
    /\ ws_expected = 0
    /\ ws_answer = [phase |-> 0, status |-> 0]
    /\ ws_out = Pending

NoArg == [fn |-> "none"]

NotApplied == [done |-> FALSE]

PureIdle ==
    /\ fn_arg = NoArg
    /\ fn_result = NotApplied

\* no input polling thread has been started
PollIdle ==
    /\ ipc = FALSE
    /\ input_poll_stop = FALSE
    /\ stop_flag = FALSE
    /\ poll_pc = "none"
    /\ ctrl_lock = "free"

OtherIdle ==
    /\ other_pc = "ui"
    /\ other_product_id = FALSE
    /\ latest_version = FALSE
    /\ checking_latest = FALSE
    /\ fetch_pc = "none"
    /\ latest_rx = <<>>

RestIdle ==
    /\ ClientIdle /\ SessionIdle /\ WaitIdle /\ PureIdle /\ PollIdle
    /\ OtherIdle

Init == DaemonInit /\ FwIdle /\ AppIdle /\ RestIdle

(***************************************************************************)
(* The environment: the controller is plugged in or removed.                *)
(***************************************************************************)
Plug ==
    /\ ~plugged
    /\ plugged' = TRUE
    /\ UNCHANGED <<device, update_in_progress, device_lock, recon_pc,
                   handler_pc, request, response, handed_over, opened_in_gate>>
    /\ UNCHANGED error_of
    /\ UNCHANGED nondaemon_vars

Unplug ==
    /\ plugged
    /\ plugged' = FALSE
    /\ UNCHANGED <<device, update_in_progress, device_lock, recon_pc,
                   handler_pc, request, response, handed_over, opened_in_gate>>
    /\ UNCHANGED error_of
    /\ UNCHANGED nondaemon_vars

(***************************************************************************)
(* device_connection_loop.                                                  *)
(***************************************************************************)
\* if !state.update_in_progress.load(Relaxed) { ... } sleep(2s)
ReconLoadFlag ==
    /\ recon_pc = "load"
    /\ recon_pc' = IF ~update_in_progress THEN "lock" ELSE "load"
    /\ UNCHANGED <<device, update_in_progress, device_lock, handler_pc,
                   request, response, plugged, handed_over, opened_in_gate>>
    /\ UNCHANGED error_of
    /\ UNCHANGED nondaemon_vars

\* let mut dev = state.device.lock().unwrap();
ReconLock ==
    /\ recon_pc = "lock"
    /\ device_lock = Unlocked
    /\ device_lock' = HeldByRecon
    /\ recon_pc' = "open"
    /\ UNCHANGED <<device, update_in_progress, handler_pc, request, response,
                   plugged, handed_over, opened_in_gate>>
    /\ UNCHANGED error_of
    /\ UNCHANGED nondaemon_vars

\* The outcomes of HidApi::new() followed by DualSense::new(&api, None).
OpenOutcomes_never == {FALSE}
OpenOutcomes == IF plugged THEN {TRUE, FALSE} ELSE {FALSE}

\* if dev.is_none() && let Ok(api) = HidApi::new() { match DualSense::new .. }
\* then the guard is dropped and the thread sleeps.
ReconOpen ==
    /\ recon_pc = "open"
    /\ device_lock = HeldByRecon
    /\ \E opened \in OpenOutcomes :
          IF device = "None" /\ opened
          THEN /\ device' = "Some"
               /\ opened_in_gate' = update_in_progress
          ELSE UNCHANGED <<device, opened_in_gate>>
    /\ device_lock' = Unlocked
    /\ recon_pc' = "load"
    /\ UNCHANGED <<update_in_progress, handler_pc, request, response, plugged,
                   handed_over>>
    /\ UNCHANGED error_of
    /\ UNCHANGED nondaemon_vars

device_connection_loop == ReconLoadFlag \/ ReconLock \/ ReconOpen

(***************************************************************************)
(* IpcClient::request: send one line, then read one line.                   *)
(***************************************************************************)
\* IpcClient::send
send(c, line) ==
    /\ handler_pc[c] = "read"
    /\ request[c] = NoRequest
    /\ response[c] = NoResponse
    /\ request' = [request EXCEPT ![c] = line]
    /\ UNCHANGED <<device, update_in_progress, device_lock, recon_pc,
                   handler_pc, response, plugged, handed_over, opened_in_gate,
                   error_of>>

\* IpcClient::recv
recv(c) ==
    /\ response[c] # NoResponse
    /\ response' = [response EXCEPT ![c] = NoResponse]
    /\ error_of' = [error_of EXCEPT ![c] = "none"]
    /\ UNCHANGED <<device, update_in_progress, device_lock, recon_pc,
                   handler_pc, request, plugged, handed_over, opened_in_gate>>

\* A client other than the frontend modelled below.
ClientSend(c, line) == send(c, line) /\ UNCHANGED nondaemon_vars

ClientRecv(c) == recv(c) /\ UNCHANGED nondaemon_vars

(***************************************************************************)
(* handle_client: one thread per connection.                                *)
(***************************************************************************)
\* send(&mut writer, resp), after which the loop reads the next line.
Reply_dropped(c, resp) ==
    /\ response' = response
    /\ request' = [request EXCEPT ![c] = NoRequest]
    /\ handler_pc' = [handler_pc EXCEPT ![c] = "read"]
Reply(c, resp) ==
    /\ response' = [response EXCEPT ![c] = resp]
    /\ request' = [request EXCEPT ![c] = NoRequest]
    /\ handler_pc' = [handler_pc EXCEPT ![c] = "read"]

\* read_line's break arm with a reset of the gate on the way out
HandleClosed_clears(c) ==
    /\ handler_pc[c] = "read"
    /\ request[c] = NoRequest
    /\ response[c] = NoResponse
    /\ handler_pc' = [handler_pc EXCEPT ![c] = "exited"]
    /\ update_in_progress' = FALSE
    /\ UNCHANGED <<device, device_lock, recon_pc, request,
                   response, plugged, handed_over, opened_in_gate>>
    /\ UNCHANGED error_of
    /\ UNCHANGED nondaemon_vars

\* reader.read_line: Ok(0) | Err(_) => break
HandleClosed(c) ==
    /\ handler_pc[c] = "read"
    /\ request[c] = NoRequest
    /\ response[c] = NoResponse
    /\ handler_pc' = [handler_pc EXCEPT ![c] = "exited"]
    /\ UNCHANGED <<device, update_in_progress, device_lock, recon_pc, request,
                   response, plugged, handed_over, opened_in_gate>>
    /\ UNCHANGED error_of
    /\ UNCHANGED nondaemon_vars

\* serde_json::from_str fails: Error, continue
HandleMalformed_breaks(c) ==
    /\ handler_pc[c] = "read"
    /\ request[c] = Malformed
    /\ response' = [response EXCEPT ![c] = "Error"]
    /\ request' = [request EXCEPT ![c] = NoRequest]
    /\ handler_pc' = [handler_pc EXCEPT ![c] = "exited"]
    /\ UNCHANGED <<device, update_in_progress, device_lock, recon_pc, plugged,
                   handed_over, opened_in_gate>>
    /\ error_of' = [error_of EXCEPT ![c] = "parse"]
    /\ UNCHANGED nondaemon_vars
HandleMalformed(c) ==
    /\ handler_pc[c] = "read"
    /\ request[c] = Malformed
    /\ Reply(c, "Error")
    /\ UNCHANGED <<device, update_in_progress, device_lock, recon_pc, plugged,
                   handed_over, opened_in_gate>>
    /\ error_of' = [error_of EXCEPT ![c] = "parse"]
    /\ UNCHANGED nondaemon_vars

\* DaemonCommand::Ping => send Pong
HandlePing(c) ==
    /\ handler_pc[c] = "read"
    /\ request[c] = "Ping"
    /\ Reply(c, "Pong")
    /\ UNCHANGED <<device, update_in_progress, device_lock, recon_pc, plugged,
                   handed_over, opened_in_gate>>
    /\ UNCHANGED error_of
    /\ UNCHANGED nondaemon_vars

\* SetUpdateMode { active: true }: state.update_in_progress.store(true, SeqCst)
HandleSetUpdateModeStore(c) ==
    /\ handler_pc[c] = "read"
    /\ request[c] = SetUpdateModeOn
    /\ update_in_progress' = TRUE
    /\ handler_pc' = [handler_pc EXCEPT ![c] = "release"]
    /\ UNCHANGED <<device, device_lock, recon_pc, request, response, plugged,
                   handed_over, opened_in_gate>>
    /\ UNCHANGED error_of
    /\ UNCHANGED nondaemon_vars

\* *state.device.lock().unwrap() = None; send Ok
HandleSetUpdateModeRelease(c) ==
    /\ handler_pc[c] = "release"
    /\ device_lock = Unlocked
    /\ device' = "None"
    /\ opened_in_gate' = FALSE
    /\ handed_over' = TRUE
    /\ Reply(c, "Ok")
    /\ UNCHANGED <<update_in_progress, device_lock, recon_pc, plugged>>
    /\ UNCHANGED error_of
    /\ UNCHANGED nondaemon_vars

\* SetUpdateMode { active: false }: store(false, SeqCst); send Ok
HandleSetUpdateModeClear(c) ==
    /\ handler_pc[c] = "read"
    /\ request[c] = SetUpdateModeOff
    /\ update_in_progress' = FALSE
    /\ handed_over' = FALSE
    /\ Reply(c, "Ok")
    /\ UNCHANGED <<device, device_lock, recon_pc, plugged, opened_in_gate>>
    /\ UNCHANGED error_of
    /\ UNCHANGED nondaemon_vars

\* The commands of the last match arm (cmd => ...).
GatedCommands == DaemonCommand \ {"Ping", SetUpdateModeOn, SetUpdateModeOff}

\* if state.update_in_progress.load(Relaxed) { send Error; continue }
HandleGateClosed(c) ==
    /\ handler_pc[c] = "read"
    /\ request[c] \in GatedCommands
    /\ update_in_progress
    /\ Reply(c, "Error")
    /\ UNCHANGED <<device, update_in_progress, device_lock, recon_pc, plugged,
                   handed_over, opened_in_gate>>
    /\ error_of' = [error_of EXCEPT ![c] = "gate"]
    /\ UNCHANGED nondaemon_vars

\* the flag was read false: go on to state.device.lock()
HandleGateOpen(c) ==
    /\ handler_pc[c] = "read"
    /\ request[c] \in GatedCommands
    /\ ~update_in_progress
    /\ handler_pc' = [handler_pc EXCEPT ![c] = "lock"]
    /\ UNCHANGED <<device, update_in_progress, device_lock, recon_pc, request,
                   response, plugged, handed_over, opened_in_gate>>
    /\ UNCHANGED error_of
    /\ UNCHANGED nondaemon_vars

\* let mut dev = state.device.lock().unwrap();
HandleLock_unguarded(c) ==
    /\ handler_pc[c] = "lock"
    /\ device_lock' = HeldBy(c)
    /\ handler_pc' = [handler_pc EXCEPT ![c] = "locked"]
    /\ UNCHANGED <<device, update_in_progress, recon_pc, request, response,
                   plugged, handed_over, opened_in_gate>>
    /\ UNCHANGED error_of
    /\ UNCHANGED nondaemon_vars
HandleLock(c) ==
    /\ handler_pc[c] = "lock"
    /\ device_lock = Unlocked
    /\ device_lock' = HeldBy(c)
    /\ handler_pc' = [handler_pc EXCEPT ![c] = "locked"]
    /\ UNCHANGED <<device, update_in_progress, recon_pc, request, response,
                   plugged, handed_over, opened_in_gate>>
    /\ UNCHANGED error_of
    /\ UNCHANGED nondaemon_vars

\* None => send(NoDevice)
HandleNoDevice(c) ==
    /\ handler_pc[c] = "locked"
    /\ device_lock = HeldBy(c)
    /\ device = "None"
    /\ Reply(c, "NoDevice")
    /\ device_lock' = Unlocked
    /\ UNCHANGED <<device, update_in_progress, recon_pc, plugged, handed_over,
                   opened_in_gate>>
    /\ UNCHANGED error_of
    /\ UNCHANGED nondaemon_vars

\* The outcomes of the device I/O of one session operation (TRUE: Ok).
IoOutcomes(cmd) ==
    IF cmd = "GetControllerInfo" THEN {TRUE}
    ELSE IF plugged THEN {TRUE, FALSE} ELSE {FALSE}

\* dispatch(ds, cmd), given the outcome of the session operation.
dispatch_untyped(cmd, ok) == IF ok THEN "Ok" ELSE "Error"
dispatch(cmd, ok) ==
    CASE cmd = "Ping" -> "Pong"
      [] cmd = "GetBattery" -> IF ok THEN "Battery" ELSE "Error"
      [] cmd = "GetInputState" -> IF ok THEN "InputState" ELSE "Error"
      [] cmd = "GetFirmwareInfo" -> IF ok THEN "FirmwareInfo" ELSE "Error"
      [] cmd = "GetControllerInfo" -> "ControllerInfo"
      [] OTHER -> IF ok THEN "Ok" ELSE "Error"

\* Some(ds) => resp = dispatch(ds, cmd); send(resp); if failed { *dev = None }
HandleDispatch_keeps(c) ==
    /\ handler_pc[c] = "locked"
    /\ device_lock = HeldBy(c)
    /\ device = "Some"
    /\ \E ok \in IoOutcomes(request[c]) :
          LET resp == dispatch(request[c], ok) IN
          /\ Reply(c, resp)
          /\ IF resp = "Error"
             THEN /\ error_of' = [error_of EXCEPT ![c] = "device"]
                  /\ UNCHANGED <<device, opened_in_gate>>
             ELSE UNCHANGED <<device, opened_in_gate, error_of>>
    /\ device_lock' = Unlocked
    /\ UNCHANGED <<update_in_progress, recon_pc, plugged, handed_over>>
    /\ UNCHANGED nondaemon_vars
HandleDispatch(c) ==
    /\ handler_pc[c] = "locked"
    /\ device_lock = HeldBy(c)
    /\ device = "Some"
    /\ \E ok \in IoOutcomes(request[c]) :
          LET resp == dispatch(request[c], ok) IN
          /\ Reply(c, resp)
          /\ IF resp = "Error"
             THEN /\ device' = "None"
                  /\ opened_in_gate' = FALSE
                  /\ error_of' = [error_of EXCEPT ![c] = "device"]
             ELSE UNCHANGED <<device, opened_in_gate, error_of>>
    /\ device_lock' = Unlocked
    /\ UNCHANGED <<update_in_progress, recon_pc, plugged, handed_over>>
    /\ UNCHANGED nondaemon_vars

handle_client(c) ==
    \/ HandleClosed(c)
    \/ HandleMalformed(c)
    \/ HandlePing(c)
    \/ HandleSetUpdateModeStore(c)
    \/ HandleSetUpdateModeRelease(c)
    \/ HandleSetUpdateModeClear(c)
    \/ HandleGateClosed(c)
    \/ HandleGateOpen(c)
    \/ HandleLock(c)
    \/ HandleNoDevice(c)
    \/ HandleDispatch(c)

Next ==
    \/ Plug
    \/ Unplug
    \/ device_connection_loop
    \/ \E c \in Clients : \E line \in RequestLines : ClientSend(c, line)
    \/ \E c \in Clients : ClientRecv(c)
    \/ \E c \in Clients : handle_client(c)

Spec == Init /\ [][Next]_vars

(***************************************************************************)
(* Claims about the daemon.                                                 *)
(***************************************************************************)

\* C1: from the moment the daemon has replied Ok to SetUpdateMode{active:true}
\* until it processes a SetUpdateMode{active:false}, the daemon holds no
\* device session.
C1_NoSessionDuringHandover == handed_over => device = "None"

\* C2: in every reachable daemon state, update_in_progress = true implies that
\* the session slot is empty (device = None).
C2_GateImpliesEmptySlot == update_in_progress => device = "None"

\* A handler writes a response line for client c in this step.
Replies(c) == response[c] = NoResponse /\ response'[c] # NoResponse

\* C3: every command other than SetUpdateMode that a handler answers while
\* update_in_progress is true is answered Error, never with a success response.
C3_GatedCommandsAnsweredError ==
    [][\A c \in Clients :
          (/\ Replies(c)
           /\ update_in_progress
           /\ request[c] \in DaemonCommand \ {SetUpdateModeOn, SetUpdateModeOff})
          => (response'[c] = "Error" /\ response'[c] \notin SuccessResponses)]_vars

\* The reconnection thread stores a session in this step.
ReconStores == device = "None" /\ device' = "Some"

\* A handler dispatches a command on the held session in this step.
Dispatches(c) ==
    handler_pc[c] = "locked" /\ device = "Some" /\ handler_pc'[c] = "read"

\* C4: at the instant device_connection_loop stores a session the flag is
\* false, so no command is ever dispatched on a session that was opened
\* between a SetUpdateMode{active:true} and the following
\* SetUpdateMode{active:false}.
C4_StoresOnlyOutsideGate ==
    [][/\ ReconStores => ~update_in_progress
       /\ \A c \in Clients : Dispatches(c) => ~opened_in_gate]_vars

(***************************************************************************)
(* DualSense::get_battery.                                                  *)
(***************************************************************************)
\* The reports read_timeout can return: a read error (size < 0), a timeout
\* (size 0) or a report of some size, id and battery status byte.
BatteryStatusBytes == {0, 26}
InputReports ==
    {ReadError} \cup
    [size : {0, DS_INPUT_REPORT_USB_SIZE, DS_INPUT_REPORT_BT_SIZE},
     id : {DS_INPUT_REPORT_USB, DS_INPUT_REPORT_BT},
     status : BatteryStatusBytes]

\* (capacity, status) from the status byte.
BatteryCapacity_unclamped(status_byte) ==
    LET bat_data == status_byte % 16
        charging_status == (status_byte \div (2 ^ DS_STATUS_CHARGING_SHIFT)) % 16
    IN  IF charging_status \in {0, 1, 2, 10} THEN (bat_data * 10 + 5) % 256 ELSE 0
BatteryCapacity(status_byte) ==
    LET bat_data == status_byte % 16
        charging_status == (status_byte \div (2 ^ DS_STATUS_CHARGING_SHIFT)) % 16
    IN  IF charging_status \in {0, 1, 2}
        THEN Min((bat_data * 10 + 5) % 256, 100)
        ELSE 0

BatteryError(msg, read) ==
    [ok |-> FALSE, err |-> msg, capacity |-> 0, read |-> read]

get_battery_any_report(updating, bt, rep) ==
    IF updating THEN BatteryError("", FALSE)
    ELSE IF rep.size < 0 THEN BatteryError("hid read error", TRUE)
    ELSE [ok |-> TRUE, err |-> "", capacity |-> BatteryCapacity(rep.status),
          read |-> TRUE]
get_battery(updating, bt, rep) ==
    IF updating THEN BatteryError("", FALSE)
    ELSE IF rep.size < 0 THEN BatteryError("hid read error", TRUE)
    ELSE IF rep.size = 0 THEN BatteryError("Timeout", TRUE)
    ELSE LET report == IF bt THEN DS_INPUT_REPORT_BT ELSE DS_INPUT_REPORT_USB
             report_size == IF bt THEN DS_INPUT_REPORT_BT_SIZE
                            ELSE DS_INPUT_REPORT_USB_SIZE
         IN  IF rep.id # report \/ rep.size # report_size
             THEN BatteryError("Invalid report received", TRUE)
             ELSE [ok |-> TRUE, err |-> "", capacity |-> BatteryCapacity(rep.status),
                   read |-> TRUE]

(***************************************************************************)
(* DualSense::update_firmware: the precondition checks.                     *)
(***************************************************************************)
check_firmware_compatibility(len, payload_pid, pid) ==
    IF len < MinHeaderSize THEN "Firmware file too small"
    ELSE IF payload_pid # pid THEN "Firmware incompatible"
    ELSE "Ok"

\* "Ok", or the message update_firmware bails with before progress_callback(0).
update_firmware_checks(bt, len, updating, rep, pid, payload_pid) ==
    IF bt THEN "Firmware update not supported over Bluetooth."
    ELSE IF len # FIRMWARE_SIZE THEN "Invalid firmware size"
    ELSE LET battery == get_battery(updating, bt, rep) IN
         IF ~battery.ok THEN battery.err
         ELSE IF battery.capacity < DS_BATTERY_THRESHOLD THEN "Battery too low"
         ELSE check_firmware_compatibility(len, payload_pid, pid)

(***************************************************************************)
(* The progress closures of the callers (app.rs) and the channel.           *)
(***************************************************************************)
ProgressClosure_unscaled(closure, p) == p
ProgressClosure(closure, p) ==
    CASE closure = "flash_file" -> p
      [] closure = "flash_latest" -> 50 + p \div 2
      [] closure = "download" -> p \div 2

\* let _ = tx.send(ProgressUpdate::Progress(..))
Progress(closure, p) ==
    /\ delivered' = ProgressClosure(closure, p)
    /\ delivered_by' = IF closure = "download" THEN "download" ELSE "flash"
    /\ n_progress' = n_progress + 1

NoProgress == UNCHANGED <<delivered, delivered_by, n_progress>>

(***************************************************************************)
(* Feature reports: send_firmware_feature and firmware_wait_status.         *)
(***************************************************************************)
SendOutcomes == {TRUE, FALSE}

send_firmware_feature(bt, ok) ==
    IF bt THEN "Please connect to USB."
    ELSE IF ok THEN "Ok"
    ELSE "Failed to send firmware data"

\* A 0xF4 report with this phase byte, carrying payload[off .. off+size).
SendReport(phase, off, size) ==
    /\ reports' = reports + 1
    /\ last_report' = [phase |-> phase, offset |-> off, size |-> size]
    /\ poll_done' = -1

NoReportSent == UNCHANGED <<reports, last_report>>

\* What get_feature_report(0xF5) returns: an error (phase < 0) or buf[1], buf[2].
StatusBytes == {0, 1, 3, 4, 16, 17}
DeviceAnswers ==
    {[phase |-> -1, status |-> 0]} \cup [phase : {0, 1, 2}, status : StatusBytes]

\* The match on the status byte, per expected phase.
StatusAction_lenient(expected, status) ==
    IF status = 0 THEN "done" ELSE IF status = 16 THEN "retry" ELSE "fail"
StatusAction(expected, status) ==
    CASE expected = 0 ->
           IF status = 0 THEN "done"
           ELSE IF status \in {4, 16} THEN "retry" ELSE "fail"
      [] expected = 1 ->
           IF status \in {0, 3} THEN "done"
           ELSE IF status \in {1, 16} THEN "retry" ELSE "fail"
      [] expected = 2 ->
           IF status = 0 THEN "done"
           ELSE IF status = 16 THEN "retry" ELSE "fail"
      [] OTHER -> "fail"

\* start.elapsed() > 30 s: not on the first iteration, certainly after MaxPolls.
TimeoutChoices_never == {FALSE}
TimeoutChoices ==
    IF polls >= MaxPolls THEN {TRUE}
    ELSE IF polls >= 1 THEN {TRUE, FALSE}
    ELSE {FALSE}

\* One iteration of firmware_wait_status: "done", "retry" or the error.
firmware_wait_status(expected, timed_out, answer) ==
    IF timed_out THEN "Firmware update timeout"
    ELSE IF answer.phase < 0 THEN "hid get_feature_report error"
    ELSE IF answer.phase # expected THEN "Unexpected phase"
    ELSE LET action == StatusAction(expected, answer.status) IN
         IF action = "fail" THEN "status error" ELSE action

\* The `?` after firmware_wait_status: an Err leaves update_firmware.
Propagates_swallowed(out) == FALSE
Propagates(out) == out \notin {"done", "retry"}

\* The phase whose poll returned Ok(()).
Polled(expected, out) == IF out = "done" THEN expected ELSE -1

\* update_firmware returns.
Return(result) ==
    /\ fw_pc' = "returned"
    /\ fw_result' = result

Retry ==
    /\ polls' = polls + 1
    /\ NoProgress
    /\ UNCHANGED <<fw_pc, fw_result, offset, chunk_offset, poll_done>>

\* An error return: the `?` drops the loop variables.
Fail(result) ==
    /\ Return(result)
    /\ NoProgress
    /\ offset' = 0
    /\ chunk_offset' = 0
    /\ polls' = 0
    /\ UNCHANGED poll_done

fw_inputs == <<fw_len, fw_pid, sink, dl_len, dl_total>>

(***************************************************************************)
(* DualSense::update_firmware.                                              *)
(***************************************************************************)
UpdateFirmwareChecks ==
    /\ fw_pc = "precheck"
    /\ LET outcome == update_firmware_checks(is_bt, fw_len, update_mode,
                                             input_report, product_id, fw_pid)
       IN  IF outcome = "Ok"
           THEN /\ Progress(sink, 0)
                /\ fw_pc' = "start"
                /\ offset' = 0
                /\ UNCHANGED fw_result
           ELSE /\ Return(outcome)
                /\ NoProgress
                /\ UNCHANGED offset
    /\ UNCHANGED <<chunk_offset, polls, poll_done, downloaded>>
    /\ NoReportSent
    /\ UNCHANGED <<fw_inputs, session_vars, daemon_vars, app_vars, rest_vars>>

\* firmware_start: for offset in (0..256).step_by(57) { send }
FirmwareStartSend ==
    /\ fw_pc = "start"
    /\ \E ok \in SendOutcomes :
          LET chunk_size == Min(PrologueSize - offset, ChunkSize)
              sent == send_firmware_feature(is_bt, ok)
          IN  IF sent = "Ok"
              THEN /\ SendReport(0, offset, chunk_size)
                   /\ IF offset + ChunkSize < PrologueSize
                      THEN offset' = offset + ChunkSize /\ UNCHANGED fw_pc
                      ELSE fw_pc' = "start_poll" /\ UNCHANGED offset
                   /\ polls' = 0
                   /\ NoProgress
                   /\ UNCHANGED <<fw_result, chunk_offset>>
              ELSE /\ Fail(sent)
                   /\ NoReportSent
    /\ UNCHANGED <<downloaded, fw_inputs, session_vars, daemon_vars, app_vars, rest_vars>>

\* firmware_start: self.firmware_wait_status(0x0); then progress_callback(5)
FirmwareStartWait ==
    /\ fw_pc = "start_poll"
    /\ \E timed_out \in TimeoutChoices : \E answer \in DeviceAnswers :
          LET out == firmware_wait_status(0, timed_out, answer) IN
          CASE out = "retry" -> Retry
            [] Propagates(out) -> Fail(out)
            [] OTHER ->
                 /\ poll_done' = Polled(0, out)
                 /\ Progress(sink, 5)
                 /\ fw_pc' = IF PrologueSize < fw_len THEN "write" ELSE "write_end"
                 /\ offset' = PrologueSize
                 /\ chunk_offset' = 0
                 /\ polls' = 0
                 /\ UNCHANGED <<fw_result>>
    /\ NoReportSent
    /\ UNCHANGED <<downloaded, fw_inputs, session_vars, daemon_vars, app_vars, rest_vars>>

\* a packet size that takes no account of the end of the page
ActualSize_across_pages(total_size, global_offset, chunk_off) ==
    Min(total_size - global_offset, ChunkSize)

\* remaining = 0x8000 - chunk_offset; packet_size = remaining.min(57);
\* actual_size = (total_size - global_offset).min(packet_size)
ActualSize(total_size, global_offset, chunk_off) ==
    LET remaining == PageSize - chunk_off
        packet_size == Min(remaining, ChunkSize)
    IN  Min(total_size - global_offset, packet_size)

\* firmware_write: one packet of the inner loop
FirmwareWriteSend ==
    /\ fw_pc = "write"
    /\ \E ok \in SendOutcomes :
          LET global_offset == offset + chunk_offset
              actual_size == ActualSize(fw_len, global_offset, chunk_offset)
              sent == send_firmware_feature(is_bt, ok)
          IN  IF sent = "Ok"
              THEN /\ SendReport(1, global_offset, actual_size)
                   /\ fw_pc' = "write_poll"
                   /\ polls' = 0
                   /\ NoProgress
                   /\ UNCHANGED <<fw_result, offset, chunk_offset>>
              ELSE /\ Fail(sent)
                   /\ NoReportSent
    /\ UNCHANGED <<downloaded, fw_inputs, session_vars, daemon_vars, app_vars, rest_vars>>

\* progress = (written * 90 / write_len.max(1) + 5).min(95)
WriteProgress(total_size, global_offset, actual_size) ==
    LET write_len == total_size - PrologueSize
        written == global_offset - PrologueSize + actual_size
    IN  Min(Min((written * 90) \div Max(write_len, 1) + 5, 95), 95)

\* firmware_write: firmware_wait_status(0x01), the progress callback, and the
\* loop headers that choose the next packet
FirmwareWriteWait ==
    /\ fw_pc = "write_poll"
    /\ \E timed_out \in TimeoutChoices : \E answer \in DeviceAnswers :
          LET out == firmware_wait_status(1, timed_out, answer)
              global_offset == offset + chunk_offset
              next_chunk == chunk_offset + ChunkSize
              next_page == offset + PageSize
          IN
          CASE out = "retry" -> Retry
            [] Propagates(out) -> Fail(out)
            [] OTHER ->
                 /\ poll_done' = Polled(1, out)
                 /\ Progress(sink, WriteProgress(fw_len, global_offset,
                                                 last_report.size))
                 /\ IF next_chunk < PageSize /\ offset + next_chunk < fw_len
                    THEN /\ chunk_offset' = next_chunk
                         /\ fw_pc' = "write"
                         /\ UNCHANGED offset
                    ELSE /\ chunk_offset' = 0
                         /\ offset' = next_page
                         /\ fw_pc' = IF next_page < fw_len THEN "write"
                                     ELSE "write_end"
                 /\ polls' = 0
                 /\ UNCHANGED <<fw_result>>
    /\ NoReportSent
    /\ UNCHANGED <<downloaded, fw_inputs, session_vars, daemon_vars, app_vars, rest_vars>>

\* progress_callback(95)
FirmwareWriteEnd ==
    /\ fw_pc = "write_end"
    /\ Progress(sink, 95)
    /\ fw_pc' = "verify"
    /\ NoReportSent
    /\ UNCHANGED <<fw_result, offset, chunk_offset, polls, poll_done,
                   downloaded, fw_inputs, session_vars, daemon_vars, app_vars, rest_vars>>

\* firmware_verify: send [0xF4, 0x02]
FirmwareVerifySend ==
    /\ fw_pc = "verify"
    /\ \E ok \in SendOutcomes :
          LET sent == send_firmware_feature(is_bt, ok) IN
          IF sent = "Ok"
          THEN /\ SendReport(2, fw_len, 0)
               /\ fw_pc' = "verify_poll"
               /\ polls' = 0
               /\ NoProgress
               /\ UNCHANGED <<fw_result, offset, chunk_offset>>
          ELSE /\ Fail(sent)
               /\ NoReportSent
    /\ UNCHANGED <<downloaded, fw_inputs, session_vars, daemon_vars, app_vars, rest_vars>>

\* firmware_verify: firmware_wait_status(0x02); then progress_callback(98)
FirmwareVerifyWait ==
    /\ fw_pc = "verify_poll"
    /\ \E timed_out \in TimeoutChoices : \E answer \in DeviceAnswers :
          LET out == firmware_wait_status(2, timed_out, answer) IN
          CASE out = "retry" -> Retry
            [] Propagates(out) -> Fail(out)
            [] OTHER ->
                 /\ poll_done' = Polled(2, out)
                 /\ Progress(sink, 98)
                 /\ fw_pc' = "finale"
                 /\ polls' = 0
                 /\ UNCHANGED <<fw_result, offset, chunk_offset>>
    /\ NoReportSent
    /\ UNCHANGED <<downloaded, fw_inputs, session_vars, daemon_vars, app_vars, rest_vars>>

\* firmware_finale: send [0xF4, 0x03]; then progress_callback(100); Ok(())
FirmwareFinale ==
    /\ fw_pc = "finale"
    /\ \E ok \in SendOutcomes :
          LET sent == send_firmware_feature(is_bt, ok) IN
          IF sent = "Ok"
          THEN /\ SendReport(3, fw_len, 0)
               /\ Progress(sink, 100)
               /\ Return("Ok")
               /\ UNCHANGED <<offset, chunk_offset, polls>>
          ELSE /\ Fail(sent)
               /\ NoReportSent
    /\ UNCHANGED <<downloaded, fw_inputs, session_vars, daemon_vars, app_vars, rest_vars>>

update_firmware ==
    \/ UpdateFirmwareChecks
    \/ FirmwareStartSend
    \/ FirmwareStartWait
    \/ FirmwareWriteSend
    \/ FirmwareWriteWait
    \/ FirmwareWriteEnd
    \/ FirmwareVerifySend
    \/ FirmwareVerifyWait
    \/ FirmwareFinale

(***************************************************************************)
(* FirmwareDownloader::download_latest_firmware with flash_latest's closure. *)
(***************************************************************************)
\* get_latest_version, the GET and its status; then progress_callback(0)
DownloadBegin ==
    /\ fw_pc = "download"
    /\ \E ok \in {TRUE, FALSE} :
          IF ok
          THEN /\ Progress("download", 0)
               /\ fw_pc' = "download_read"
               /\ UNCHANGED fw_result
          ELSE /\ Return("Download failed")
               /\ NoProgress
    /\ downloaded' = 0
    /\ NoReportSent
    /\ UNCHANGED <<offset, chunk_offset, polls, poll_done,
                   fw_inputs, session_vars, daemon_vars, app_vars, rest_vars>>

\* loop { bytes_read = response.read(&mut buffer)?; ... progress_callback(..) }
\* Every read fills the buffer; the last one returns the rest.
DownloadRead ==
    /\ fw_pc = "download_read"
    /\ \E ok \in {TRUE, FALSE} :
          LET bytes_read == Min(ReadBufferSize, dl_len - downloaded) IN
          IF ~ok
          THEN /\ Return("Download interrupted")
               /\ NoProgress
               /\ UNCHANGED downloaded
          ELSE IF bytes_read = 0
          THEN /\ fw_pc' = "download_end"
               /\ NoProgress
               /\ UNCHANGED <<fw_result, downloaded>>
          ELSE /\ downloaded' = downloaded + bytes_read
               /\ Progress("download",
                           Min(((downloaded + bytes_read) * 100) \div dl_total, 100))
               /\ UNCHANGED <<fw_pc, fw_result>>
    /\ NoReportSent
    /\ UNCHANGED <<offset, chunk_offset, polls, poll_done,
                   fw_inputs, session_vars, daemon_vars, app_vars, rest_vars>>

\* progress_callback(100); Ok(fw_data)
DownloadEnd ==
    /\ fw_pc = "download_end"
    /\ Progress("download", 100)
    /\ Return("Ok")
    /\ fw_len' = downloaded
    /\ NoReportSent
    /\ UNCHANGED <<offset, chunk_offset, polls, poll_done, downloaded,
                   fw_pid, sink, dl_len, dl_total, session_vars, daemon_vars, app_vars, rest_vars>>

download_firmware == DownloadBegin \/ DownloadRead \/ DownloadEnd

(***************************************************************************)
(* SpecFw: one operation with a progress callback, run on its own: either   *)
(* download_latest_firmware with the closure of flash_latest, or            *)
(* update_firmware with the closure of flash_file or of flash_latest, on a  *)
(* session and a payload drawn from the sets below.                         *)
(***************************************************************************)
ProductIds == {DS_PID, DSE_PID}
FirmwareLengths == {FIRMWARE_SIZE - 1, FIRMWARE_SIZE}
\* content_length(): the body length, absent (FIRMWARE_SIZE), or the length of
\* a compressed transfer
ContentLengths(len) == {len, FIRMWARE_SIZE, len \div 2}

InitUpdateFirmware ==
    /\ is_bt \in BOOLEAN
    /\ product_id \in ProductIds
    /\ update_mode \in BOOLEAN
    /\ input_report \in InputReports
    /\ fw_len \in FirmwareLengths
    /\ fw_pid \in ProductIds
    /\ sink \in {"flash_file", "flash_latest"}
    /\ dl_len = 0
    /\ dl_total = 0
    /\ fw_pc = "precheck"

InitDownload ==
    /\ is_bt = FALSE
    /\ product_id \in ProductIds
    /\ update_mode = TRUE
    /\ input_report = ReadError
    /\ fw_len = 0
    /\ fw_pid = product_id
    /\ sink = "flash_latest"
    /\ dl_len \in FirmwareLengths
    /\ dl_total \in ContentLengths(dl_len)
    /\ fw_pc = "download"

InitFw ==
    /\ DaemonInit
    /\ InitUpdateFirmware \/ InitDownload
    /\ LoopInit
    /\ HistoryInit
    /\ AppIdle
    /\ RestIdle

NextFw == update_firmware \/ download_firmware

SpecFw == InitFw /\ [][NextFw]_vars

(***************************************************************************)
(* Claims about the progress values and the order of the feature reports.   *)
(***************************************************************************)
Emits == n_progress' = n_progress + 1

\* C8: the Progress values delivered to the sink never decrease and stay
\* within 0..100; with the closures of flash_latest every value of the
\* download is at most 50 and every value of the flash is at least 50.
C8_ProgressMonotoneAndHalved ==
    [][Emits =>
         /\ delivered' \in 0..100
         /\ delivered' >= delivered
         /\ delivered_by' = "download" => delivered' <= 50
         /\ (delivered_by' = "flash" /\ sink = "flash_latest") => delivered' >= 50]_vars

C8_Witness ==
    /\ sink = "flash_latest"
    /\ delivered_by = "flash"
    /\ fw_pc = "write"
    /\ delivered > 50
    /\ delivered < 95

Sends == reports' = reports + 1

\* C9: the 0xF4 reports go out in the order prologue (0), body (1), verify
\* (2), finalize (3); the first body packet, every further body packet,
\* verify and finalize are each sent only after the poll of the phase before
\* returned done; once a send or a poll has failed no report is sent.
C9_ReportsInPhaseOrder ==
    [][/\ Sends =>
            /\ last_report'.phase \in {last_report.phase, last_report.phase + 1}
            /\ last_report'.phase \in 0..3
            /\ last_report'.phase = 0 => last_report.phase \in {-1, 0}
            /\ last_report'.phase = 1 => poll_done = last_report.phase
            /\ last_report'.phase = 2 => (last_report.phase = 1 /\ poll_done = 1)
            /\ last_report'.phase = 3 => (last_report.phase = 2 /\ poll_done = 2)
            /\ fw_result = Pending
       /\ fw_result \notin {Pending, "Ok"} => reports' = reports]_vars

C9_Witness ==
    /\ fw_result = "Ok"
    /\ last_report.phase = 3
    /\ reports > 5

\* The precondition whose error a message of update_firmware belongs to.
CheckOf(msg) ==
    CASE msg = "Firmware update not supported over Bluetooth." -> "transport"
      [] msg = "Invalid firmware size" -> "length"
      [] msg \in {"Battery too low", "", "Timeout", "Invalid report received",
                  "hid read error"} -> "battery"
      [] msg \in {"Firmware file too small", "Firmware incompatible"} -> "product"
      [] OTHER -> "none"

\* The battery level the controller reports is below the threshold, or the
\* controller reports none.
BatteryBelowThreshold ==
    \/ input_report.size # DS_INPUT_REPORT_USB_SIZE
    \/ input_report.id # DS_INPUT_REPORT_USB
    \/ BatteryCapacity(input_report.status) < DS_BATTERY_THRESHOLD

FirstFailingCheck ==
    IF is_bt THEN "transport"
    ELSE IF fw_len # FIRMWARE_SIZE THEN "length"
    ELSE IF BatteryBelowThreshold THEN "battery"
    ELSE IF fw_pid # product_id THEN "product"
    ELSE "none"

\* C10: update_firmware checks transport, payload length, battery and product
\* id in this order: when one of them fails it returns the error of the first
\* that fails, having sent no 0xF4 report and emitted no progress value.
C10_FirstFailingCheckReported ==
    (fw_pc = "returned" /\ dl_len = 0 /\ FirstFailingCheck # "none")
        => /\ CheckOf(fw_result) = FirstFailingCheck
           /\ reports = 0
           /\ n_progress = 0

(***************************************************************************)
(* The frontend (DS4UApp): flash_file / flash_latest, acquire_direct_fw,    *)
(* the flashing worker thread and check_firmware_progress.                  *)
(***************************************************************************)
\* The connection of DaemonManager::new.
ManagerClient == 1

\* IpcClient::set_update_mode: the command line for SetUpdateMode { active }
set_update_mode_stuck(active) == SetUpdateModeOn
set_update_mode(active) == IF active THEN SetUpdateModeOn ELSE SetUpdateModeOff

\* The input reports of a USB controller at the time of a flash.
FlashReports ==
    {r \in InputReports :
        r.size = DS_INPUT_REPORT_USB_SIZE /\ r.id = DS_INPUT_REPORT_USB}

FlashKinds == {"flash_file", "flash_latest"}

\* let (tx, rx) = mpsc::channel(); self.firmware_progress_rx = Some(rx);
\* self.firmware_updating = true; thread::spawn(..)
Spawn(kind) ==
    /\ sink' = kind
    /\ firmware_updating' = TRUE
    /\ channel' = <<>>
    /\ worker_pc' = "set_mode"
    /\ n_status' = 0
    /\ n_terminal' = 0
    /\ terminal' = "none"
    /\ delivered' = -1
    /\ delivered_by' = "none"
    /\ n_progress' = 0
    /\ reports' = 0
    /\ last_report' = NoReport
    /\ poll_done' = -1
    /\ fw_result' = Pending
    /\ offset' = 0
    /\ chunk_offset' = 0
    /\ polls' = 0
    /\ downloaded' = 0
    /\ fw_pc' = "idle"
    /\ input_report' \in FlashReports
    /\ IF kind = "flash_file"
       THEN /\ fw_len' \in FirmwareLengths
            /\ fw_pid' \in ProductIds
            /\ dl_len' = 0
            /\ dl_total' = 0
       ELSE /\ fw_len' = 0
            /\ fw_pid' = product_id
            /\ dl_len' = FIRMWARE_SIZE
            /\ dl_total' \in ContentLengths(FIRMWARE_SIZE)
    /\ UNCHANGED <<is_bt, product_id, daemon_client>>

\* The button handler up to its first blocking call.  With a session of its
\* own acquire_direct_fw returns true at once; otherwise it asks the daemon
\* to set the gate.
FlashClicked ==
    /\ fe_pc = "ui"
    /\ ~firmware_updating
    /\ ~is_bt
    /\ channel = <<>>
    /\ \E kind \in FlashKinds :
          /\ IF controller = "Some"
             THEN /\ Spawn(kind)
                  /\ UNCHANGED <<fe_pc, controller, fw_used_daemon, update_mode>>
                  /\ UNCHANGED daemon_vars
             ELSE /\ daemon_client
                  /\ sink' = kind
                  /\ send(ManagerClient, set_update_mode(TRUE))
                  /\ fe_pc' = "gate_on"
                  /\ UNCHANGED <<controller, daemon_client, fw_used_daemon,
                                 firmware_updating, channel, worker_pc, n_status,
                                 n_terminal, terminal>>
                  /\ UNCHANGED <<fw_len, fw_pid, dl_len, dl_total, downloaded,
                                 fw_pc, fw_result, offset, chunk_offset, polls,
                                 delivered, delivered_by, n_progress, reports,
                                 last_report, poll_done, session_vars>>
    /\ UNCHANGED rest_vars

\* set_update_in_progress(true) returns; sleep(1500 ms)
AcquireSlept ==
    /\ fe_pc = "gate_on"
    /\ recv(ManagerClient)
    /\ fe_pc' = "open"
    /\ UNCHANGED <<controller, daemon_client, fw_used_daemon, firmware_updating,
                   channel, worker_pc, n_status, n_terminal, terminal>>
    /\ UNCHANGED <<session_vars, fw_vars>>
    /\ UNCHANGED rest_vars

\* refresh_devices(), DualSense::new: on success the worker is spawned, on
\* failure the daemon is asked to clear the gate
AcquireOpen ==
    /\ fe_pc = "open"
    /\ \E refreshed \in BOOLEAN : \E opened \in OpenOutcomes :
          IF refreshed /\ opened
          THEN /\ controller' = "Some"
               /\ fw_used_daemon' = TRUE
               /\ update_mode' = FALSE
               /\ Spawn(sink)
               /\ fe_pc' = "ui"
               /\ UNCHANGED daemon_vars
          ELSE /\ send(ManagerClient, set_update_mode(FALSE))
               /\ fe_pc' = "gate_off_abort"
               /\ UNCHANGED <<controller, daemon_client, fw_used_daemon,
                              firmware_updating, channel, worker_pc, n_status,
                              n_terminal, terminal>>
               /\ UNCHANGED <<session_vars, fw_vars>>
    /\ UNCHANGED rest_vars

\* set_update_in_progress(false) returns; return false
AcquireAborted ==
    /\ fe_pc = "gate_off_abort"
    /\ recv(ManagerClient)
    /\ fe_pc' = "ui"
    /\ UNCHANGED <<controller, daemon_client, fw_used_daemon, firmware_updating,
                   channel, worker_pc, n_status, n_terminal, terminal>>
    /\ UNCHANGED <<session_vars, fw_vars>>
    /\ UNCHANGED rest_vars

acquire_direct_fw == AcquireSlept \/ AcquireOpen \/ AcquireAborted

\* c.set_update_mode(true); then the first operation of the worker
WorkerSetUpdateMode ==
    /\ worker_pc = "set_mode"
    /\ update_mode' = TRUE
    /\ IF sink = "flash_latest"
       THEN fw_pc' = "download" /\ worker_pc' = "download"
       ELSE fw_pc' = "precheck" /\ worker_pc' = "update"
    /\ UNCHANGED <<is_bt, product_id, input_report>>
    /\ UNCHANGED <<fw_len, fw_pid, sink, dl_len, dl_total, downloaded, fw_result,
                   offset, chunk_offset, polls, delivered, delivered_by,
                   n_progress, reports, last_report, poll_done>>
    /\ UNCHANGED <<fe_pc, controller, daemon_client, fw_used_daemon,
                   firmware_updating, channel, n_status, n_terminal, terminal>>
    /\ UNCHANGED daemon_vars
    /\ UNCHANGED rest_vars

\* download_latest_firmware returned: Ok(d) => Status("Flashing..."), go on
\* to update_firmware; Err(e) => ctrl.set_update_mode(false), then Error
WorkerDownloaded ==
    /\ worker_pc = "download"
    /\ fw_pc = "returned"
    /\ IF fw_result = "Ok"
       THEN /\ n_status' = n_status + 1
            /\ fw_pc' = "precheck"
            /\ fw_result' = Pending
            /\ worker_pc' = "update"
            /\ UNCHANGED update_mode
       ELSE /\ update_mode' = FALSE
            /\ worker_pc' = "emit"
            /\ UNCHANGED <<n_status, fw_pc, fw_result>>
    /\ UNCHANGED <<is_bt, product_id, input_report>>
    /\ UNCHANGED <<fw_len, fw_pid, sink, dl_len, dl_total, downloaded,
                   offset, chunk_offset, polls, delivered, delivered_by,
                   n_progress, reports, last_report, poll_done>>
    /\ UNCHANGED <<fe_pc, controller, daemon_client, fw_used_daemon,
                   firmware_updating, channel, n_terminal, terminal>>
    /\ UNCHANGED daemon_vars
    /\ UNCHANGED rest_vars

\* update_firmware returned: ctrl.set_update_mode(false)
WorkerUpdated ==
    /\ worker_pc = "update"
    /\ fw_pc = "returned"
    /\ update_mode' = FALSE
    /\ worker_pc' = "emit"
    /\ UNCHANGED <<is_bt, product_id, input_report>>
    /\ UNCHANGED fw_vars
    /\ UNCHANGED <<fe_pc, controller, daemon_client, fw_used_daemon,
                   firmware_updating, channel, n_status, n_terminal, terminal>>
    /\ UNCHANGED daemon_vars
    /\ UNCHANGED rest_vars

\* match result { Ok(_) => send(Complete), Err(e) => send(Error(e)) }
TerminalEvents_silent(result) == IF result = "Ok" THEN <<"Complete">> ELSE <<>>
TerminalEvents(result) == IF result = "Ok" THEN <<"Complete">> ELSE <<"Error">>

\* the worker sends the terminal event and ends
WorkerEmit ==
    /\ worker_pc = "emit"
    /\ LET sent == TerminalEvents(fw_result) IN
          /\ channel' = channel \o sent
          /\ n_terminal' = n_terminal + Len(sent)
          /\ terminal' = IF sent = <<>> THEN terminal ELSE sent[Len(sent)]
    /\ worker_pc' = "exited"
    /\ UNCHANGED <<session_vars, fw_vars>>
    /\ UNCHANGED <<fe_pc, controller, daemon_client, fw_used_daemon,
                   firmware_updating, n_status>>
    /\ UNCHANGED daemon_vars
    /\ UNCHANGED rest_vars

worker == WorkerSetUpdateMode \/ WorkerDownloaded \/ WorkerUpdated \/ WorkerEmit

\* if self.fw_used_daemon { self.fw_used_daemon = false; self.controller = None }
DropDirectSession ==
    /\ fw_used_daemon' = FALSE
    /\ controller' = IF fw_used_daemon THEN "None" ELSE controller

\* check_firmware_progress reads Complete or Error: firmware_updating = false,
\* then daemon_manager.set_update_in_progress(false)
CheckFirmwareProgress ==
    /\ fe_pc = "ui"
    /\ channel # <<>>
    /\ channel' = Tail(channel)
    /\ firmware_updating' = FALSE
    /\ IF daemon_client
       THEN /\ send(ManagerClient, set_update_mode(FALSE))
            /\ fe_pc' = "gate_off"
            /\ UNCHANGED <<controller, fw_used_daemon>>
       ELSE /\ DropDirectSession
            /\ UNCHANGED fe_pc
            /\ UNCHANGED daemon_vars
    /\ UNCHANGED <<daemon_client, worker_pc, n_status, n_terminal, terminal>>
    /\ UNCHANGED <<session_vars, fw_vars>>
    /\ UNCHANGED rest_vars

\* set_update_in_progress(false) returns; the session opened for the flash
\* is dropped
FirmwareProgressCleared ==
    /\ fe_pc = "gate_off"
    /\ recv(ManagerClient)
    /\ DropDirectSession
    /\ fe_pc' = "ui"
    /\ UNCHANGED <<daemon_client, firmware_updating, channel, worker_pc,
                   n_status, n_terminal, terminal>>
    /\ UNCHANGED <<session_vars, fw_vars>>
    /\ UNCHANGED rest_vars

check_firmware_progress == CheckFirmwareProgress \/ FirmwareProgressCleared

\* The daemon as far as the manager's connection drives it.
GateHandler ==
    \/ HandleSetUpdateModeStore(ManagerClient)
    \/ HandleSetUpdateModeRelease(ManagerClient)
    \/ HandleSetUpdateModeClear(ManagerClient)

(***************************************************************************)
(* SpecFlash: one frontend flashing, with its own session (controller is    *)
(* Some) or through the daemon (controller is None, the manager's           *)
(* connection is open), against the daemon's gate and reconnection thread.  *)
(* Of update_firmware only the precondition checks are steps here: the      *)
(* worker calls it with update_mode set, and no later step is reachable.    *)
(***************************************************************************)
InitFlash ==
    /\ DaemonInit
    /\ FwIdle
    /\ fe_pc = "ui"
    /\ controller \in {"None", "Some"}
    /\ daemon_client \in BOOLEAN
    /\ controller = "None" => daemon_client
    /\ fw_used_daemon = FALSE
    /\ firmware_updating = FALSE
    /\ channel = <<>>
    /\ worker_pc = "none"
    /\ n_status = 0
    /\ n_terminal = 0
    /\ terminal = "none"
    /\ RestIdle

NextFlash ==
    \/ FlashClicked
    \/ acquire_direct_fw
    \/ worker
    \/ download_firmware
    \/ UpdateFirmwareChecks
    \/ check_firmware_progress
    \/ GateHandler
    \/ device_connection_loop
    \/ Plug
    \/ Unplug

SpecFlash == InitFlash /\ [][NextFlash]_vars

\* Scheduling: every thread that can take a step eventually takes it.  The
\* UI keeps repainting while firmware_updating (ctx.request_repaint), the
\* worker and the daemon's handler are running threads, and the device mutex
\* is free again and again because device_connection_loop sleeps between two
\* iterations.
FairFlash ==
    /\ WF_vars(acquire_direct_fw)
    /\ WF_vars(worker)
    /\ WF_vars(download_firmware)
    /\ WF_vars(UpdateFirmwareChecks)
    /\ WF_vars(check_firmware_progress)
    /\ WF_vars(HandleSetUpdateModeStore(ManagerClient))
    /\ SF_vars(HandleSetUpdateModeRelease(ManagerClient))
    /\ WF_vars(HandleSetUpdateModeClear(ManagerClient))
    /\ WF_vars(device_connection_loop)

SpecFlashFair == SpecFlash /\ FairFlash

(***************************************************************************)
(* Claims about a flash run by the frontend.                                *)
(***************************************************************************)
\* The errors of update_firmware that a failed send or a status poll causes.
DeviceFaults ==
    {"Please connect to USB.", "Failed to send firmware data",
     "Firmware update timeout", "hid get_feature_report error",
     "Unexpected phase", "status error"}

\* C5: when the worker has run a flash on a USB controller with a payload of
\* FIRMWARE_SIZE bytes for this product, the battery at or above the
\* threshold and no send or status poll failing, all four phases were sent,
\* progress 100 was delivered and the terminal event is Complete.
C5_WorkerFlashCompletes ==
    (/\ worker_pc = "exited"
     /\ ~is_bt
     /\ fw_len = FIRMWARE_SIZE
     /\ fw_pid = product_id
     /\ ~BatteryBelowThreshold
     /\ fw_result \notin DeviceFaults)
        => /\ terminal = "Complete"
           /\ delivered = 100
           /\ last_report.phase = 3

Spawns == worker_pc # "set_mode" /\ worker_pc' = "set_mode"

\* C6: a worker that has exited has sent exactly one terminal event, and once
\* a terminal event is sent the worker sends no Progress, Status or terminal
\* event until the next flash starts.
C6_ExactlyOneTerminalEvent ==
    /\ [](worker_pc = "exited" => n_terminal = 1)
    /\ [][(n_terminal >= 1 /\ ~Spawns)
             => UNCHANGED <<n_progress, n_status, n_terminal>>]_vars

C6_Witness ==
    /\ worker_pc = "exited"
    /\ terminal = "Error"
    /\ sink = "flash_latest"
    /\ n_status = 1
    /\ channel # <<>>

\* C7: the gate of the daemon, once set for a flash attempt, is eventually
\* cleared, and the session's update_mode is false when the worker has exited.
C7_GateEventuallyCleared ==
    /\ update_in_progress ~> ~update_in_progress
    /\ [](worker_pc = "exited" => ~update_mode)

C7_Witness ==
    /\ fe_pc = "gate_off"
    /\ fw_used_daemon
    /\ worker_pc = "exited"
    /\ ~update_in_progress
    /\ response[ManagerClient] = "Ok"

(***************************************************************************)
(* Claims about the daemon's replies and its reconnection.                  *)
(***************************************************************************)
\* The success response of a command.
TypedSuccess(cmd) ==
    CASE cmd = "GetBattery" -> "Battery"
      [] cmd = "GetInputState" -> "InputState"
      [] cmd = "GetFirmwareInfo" -> "FirmwareInfo"
      [] cmd = "GetControllerInfo" -> "ControllerInfo"
      [] OTHER -> "Ok"

Completes(c) == handler_pc[c] = "locked" /\ handler_pc'[c] = "read"

\* C11: a command dispatched on a held session is answered with its typed
\* success response and the session is kept, or with Error and the slot is
\* empty afterwards; a command dispatched on an empty slot is answered
\* NoDevice; only the reconnection thread fills the slot again.
C11_FailureDropsSession ==
    [][/\ \A c \in Clients :
            Completes(c) =>
               IF device = "Some"
               THEN \/ response'[c] = "Error" /\ device' = "None"
                    \/ response'[c] = TypedSuccess(request[c]) /\ device' = "Some"
               ELSE response'[c] = "NoDevice" /\ device' = "None"
       /\ ReconStores => recon_pc = "open"]_vars

C11_Witness ==
    \E c, d \in Clients :
        /\ c # d
        /\ error_of[c] = "device"
        /\ response[d] = "NoDevice"
        /\ device = "None"

\* Scheduling of the daemon: the reconnection thread and every handler
\* thread keep running, the reconnection thread gets the device mutex when
\* it is free again and again (it sleeps 2 s between two attempts, a handler
\* holds the mutex for one session operation), and a device that is plugged
\* in whenever it is tried is opened by one of the attempts.
ReconStore == ReconOpen /\ device' = "Some"

FairDaemon ==
    /\ WF_vars(ReconLoadFlag)
    /\ SF_vars(ReconLock)
    /\ WF_vars(ReconOpen)
    /\ SF_vars(ReconStore)
    /\ \A c \in Clients : WF_vars(handle_client(c))

SpecDaemonFair == Spec /\ FairDaemon

\* C12: whenever the slot is empty, the gate is open and the controller is
\* plugged in, the daemon eventually holds a session again, unless the gate
\* is set or the controller is removed before it does.
C12_SessionRestored ==
    (device = "None" /\ ~update_in_progress /\ plugged)
        ~> (device = "Some" \/ update_in_progress \/ ~plugged)

C12_Witness ==
    \E c, d \in Clients :
        /\ c # d
        /\ response[c] = "Battery"
        /\ response[d] = "Ok"
        /\ device = "Some"
        /\ ~update_in_progress
        /\ ~handed_over

\* C13: on a connection the handler writes one response line for every
\* request line it takes, and writes it before it takes the next line: a
\* response is written exactly in the step that finishes a request, and a
\* handler that is inside a command holds the request it is answering.
C13_OneResponsePerRequest ==
    /\ [](\A c \in Clients :
             handler_pc[c] \notin {"read", "exited"} => request[c] # NoRequest)
    /\ [][\A c \in Clients :
             /\ (response'[c] # response[c] /\ response'[c] # NoResponse)
                   => /\ response[c] = NoResponse
                      /\ request[c] # NoRequest
                      /\ request'[c] = NoRequest
                      /\ handler_pc'[c] = "read"
             /\ (request[c] # NoRequest /\ request'[c] = NoRequest)
                   => response'[c] \in DaemonResponse]_vars

C13_Witness ==
    \E c, d \in Clients :
        /\ error_of[c] = "parse"
        /\ error_of[d] = "gate"
        /\ request[c] = NoRequest
        /\ request[d] = NoRequest

(***************************************************************************)
(* SpecIpc: the daemon with clients whose recv can run into the read        *)
(* timeout set by IpcClient::connect.  A reply that arrives after the       *)
(* timeout stays in the socket and is the next line read on the connection. *)
(***************************************************************************)
\* recv fails with the 5 s timeout while the daemon has not replied yet;
\* request() returns the error
ClientTimeout(c) ==
    /\ request[c] # NoRequest
    /\ ~abandoned[c]
    /\ abandoned' = [abandoned EXCEPT ![c] = TRUE]
    /\ UNCHANGED mispaired
    /\ UNCHANGED <<daemon_vars, session_vars, fw_vars, app_vars>>
    /\ UNCHANGED <<harness_vars, wait_vars, pure_vars, poll_vars, other_vars>>

\* The next request() on such a connection once the late reply has been
\* written: send writes the new line, recv returns the line that was waiting.
ClientRequestLate(c, line) ==
    /\ abandoned[c]
    /\ handler_pc[c] = "read"
    /\ request[c] = NoRequest
    /\ response[c] # NoResponse
    /\ request' = [request EXCEPT ![c] = line]
    /\ response' = [response EXCEPT ![c] = NoResponse]
    /\ error_of' = [error_of EXCEPT ![c] = "none"]
    /\ mispaired' = [mispaired EXCEPT ![c] = TRUE]
    /\ UNCHANGED abandoned
    /\ UNCHANGED <<device, update_in_progress, device_lock, recon_pc,
                   handler_pc, plugged, handed_over, opened_in_gate>>
    /\ UNCHANGED <<session_vars, fw_vars, app_vars>>
    /\ UNCHANGED <<harness_vars, wait_vars, pure_vars, poll_vars, other_vars>>

NextIpc ==
    \/ Plug
    \/ Unplug
    \/ device_connection_loop
    \/ \E c \in Clients : \E line \in RequestLines :
          ~abandoned[c] /\ ClientSend(c, line)
    \/ \E c \in Clients : ~abandoned[c] /\ ClientRecv(c)
    \/ \E c \in Clients : handle_client(c)
    \/ \E c \in Clients : ClientTimeout(c)
    \/ \E c \in Clients : \E line \in RequestLines : ClientRequestLate(c, line)

SpecIpc == Init /\ [][NextIpc]_vars

\* C14: every response that request(cmd) returns is the daemon's reply to
\* that cmd, also on a connection where an earlier request() ran into the
\* read timeout.
C14_ResponsesStayPaired == \A c \in Clients : ~mispaired[c]

\* C15: no command other than SetUpdateMode is answered NoDevice while
\* update_in_progress is true, whatever the interleaving with a
\* SetUpdateMode{true} of another client.
C15_NeverNoDeviceWhileGated ==
    [][\A c \in Clients :
          (Replies(c) /\ response'[c] = "NoDevice") => ~update_in_progress]_vars

\* C16: a line that does not parse is answered Error, the handler goes back to
\* reading the same connection, and the device slot and update_in_progress
\* are as they were.
C16_MalformedAnsweredError ==
    [][\A c \in Clients :
          (request[c] = Malformed /\ request'[c] # request[c])
             => /\ response'[c] = "Error"
                /\ handler_pc'[c] = "read"
                /\ device' = device
                /\ update_in_progress' = update_in_progress]_vars

C16_Witness ==
    \E c \in Clients :
       /\ error_of[c] = "parse"
       /\ handler_pc[c] = "read"
       /\ device = "Some"
       /\ update_in_progress

(***************************************************************************)
(* CRC-32/ISO-HDLC as the crc crate computes it: reflected, table driven,   *)
(* initial value and final xor 0xFFFFFFFF.  A 32-bit value is the sequence  *)
(* of its four bytes, least significant first.                              *)
(***************************************************************************)
OUTPUT_CRC32_SEED == 162
\* the reflected polynomial 0xEDB88320, high and low half
Crc32PolyHi == 60856
Crc32PolyLo == 33568

RECURSIVE Xor(_, _)
Xor(a, b) ==
    IF a = 0 THEN b
    ELSE IF b = 0 THEN a
    ELSE ((a + b) % 2) + 2 * Xor(a \div 2, b \div 2)

\* k steps of the bitwise division on <<high half, low half>>
RECURSIVE CrcShift(_, _)
CrcShift(c, k) ==
    IF k = 0 THEN c
    ELSE LET hi == c[1] \div 2
             lo == (c[2] \div 2) + (c[1] % 2) * 32768
         IN  CrcShift(IF c[2] % 2 = 1
                      THEN <<Xor(hi, Crc32PolyHi), Xor(lo, Crc32PolyLo)>>
                      ELSE <<hi, lo>>, k - 1)

CrcTable ==
    [i \in 0..255 |->
        LET c == CrcShift(<<0, i>>, 8)
        IN  <<c[2] % 256, c[2] \div 256, c[1] % 256, c[1] \div 256>>]

XorTable == [a \in 0..255 |-> [b \in 0..255 |-> Xor(a, b)]]

\* Digest::update for one byte
CrcByte(crc, byte) ==
    LET t == CrcTable[XorTable[crc[1]][byte]]
    IN  <<XorTable[t[1]][crc[2]], XorTable[t[2]][crc[3]],
          XorTable[t[3]][crc[4]], t[4]>>

\* Digest::update for data[from .. to], one byte after the other; the range
\* is halved so that the first half is a value before the second half starts
RECURSIVE CrcUpdate(_, _, _, _)
CrcUpdate(crc, data, from, to) ==
    IF from > to THEN crc
    ELSE IF from = to THEN CrcByte(crc, data[from])
    ELSE LET mid == (from + to) \div 2
             first == CrcUpdate(crc, data, from, mid)
         IN  IF first[1] >= 0 THEN CrcUpdate(first, data, mid + 1, to)
             ELSE first

CrcInit == <<255, 255, 255, 255>>
CrcFinalize(crc) == [i \in 1..4 |-> 255 - crc[i]]

\* calc_crc32: the seed byte, then data[0 .. len-4]; the result as
\* to_le_bytes() gives it
calc_crc32_unseeded(data) ==
    CrcFinalize(CrcUpdate(CrcInit, data, 1, Len(data) - 4))
calc_crc32(data) ==
    CrcFinalize(CrcUpdate(CrcByte(CrcInit, OUTPUT_CRC32_SEED),
                          data, 1, Len(data) - 4))

(***************************************************************************)
(* SpecSession: the operations of one DualSense session, called one at a    *)
(* time (they take the session by reference under its mutex).               *)
(***************************************************************************)
MaxOps == 3

DS_OUTPUT_REPORT_USB == 2
DS_OUTPUT_REPORT_BT == 49
DS_OUTPUT_REPORT_BT_SIZE == 78
DS_OUTPUT_TAG == 16

DS_OUTPUT_VALID_FLAG0_RIGHT_TRIGGER_MOTOR_ENABLE == 4
DS_OUTPUT_VALID_FLAG0_LEFT_TRIGGER_MOTOR_ENABLE == 8
DS_OUTPUT_VALID_FLAG0_HEADPHONE_VOLUME_ENABLE == 16
DS_OUTPUT_VALID_FLAG0_SPEAKER_VOLUME_ENABLE == 32
DS_OUTPUT_VALID_FLAG0_AUDIO_CONTROL_ENABLE == 128
DS_OUTPUT_VALID_FLAG1_MIC_MUTE_LED_CONTROL_ENABLE == 1
DS_OUTPUT_VALID_FLAG1_POWER_SAVE_CONTROL_ENABLE == 2
DS_OUTPUT_VALID_FLAG1_LIGHTBAR_CONTROL_ENABLE == 4
DS_OUTPUT_VALID_FLAG1_PLAYER_INDICATOR_CONTROL_ENABLE == 16
DS_OUTPUT_VALID_FLAG1_VIBRATION_ATTENUATION_ENABLE == 64
DS_OUTPUT_VALID_FLAG2_LIGHTBAR_SETUP_CONTROL_ENABLE == 2
DS_OUTPUT_POWER_SAVE_CONTROL_AUDIO == 8
DS_OUTPUT_POWER_SAVE_CONTROL_MIC_MUTE == 16
DS_OUTPUT_LIGHTBAR_SETUP_LIGHT_ON == 1
DS_OUTPUT_LIGHTBAR_SETUP_LIGHT_OFF == 2
DS_OUTPUT_AUDIO_OUTPUT_PATH_SHIFT == 4
DS_TRIGGER_EFFECT_OFF == 5
PLAYER_LED_PATTERNS == <<0, 4, 10, 21, 27, 31, 17, 14>>

\* u8 bit operations
RECURSIVE BitAnd(_, _)
BitAnd(a, b) ==
    IF a = 0 \/ b = 0 THEN 0
    ELSE (a % 2) * (b % 2) + 2 * BitAnd(a \div 2, b \div 2)
BitOr(a, b) == a + b - BitAnd(a, b)
BitClear(a, mask) == a - BitAnd(a, mask)

\* buf[i] = v, with the index counted from 0 as in the code
Put(buf, i, v) == [buf EXCEPT ![i + 1] = v]
At(buf, i) == buf[i + 1]

\* self.update_mode.load(Relaxed)
is_updating_never(flag) == FALSE
is_updating(flag) == flag

\* init_output_report: the fresh buffer, and output_seq after the call
init_output_report(bt, seq) ==
    IF bt
    THEN [i \in 1..DS_OUTPUT_REPORT_BT_SIZE |->
             CASE i = 1 -> DS_OUTPUT_REPORT_BT
               [] i = 2 -> (seq * 16) % 256
               [] i = 3 -> DS_OUTPUT_TAG
               [] OTHER -> 0]
    ELSE [i \in 1..(DS_INPUT_REPORT_USB_SIZE - 1) |->
             IF i = 1 THEN DS_OUTPUT_REPORT_USB ELSE 0]

NextOutputSeq(bt, seq) == IF bt THEN (seq + 1) % 16 ELSE seq

BodyOffset(bt) == IF bt THEN 3 ELSE 1

\* data[len - 4 .. len] = crc.to_le_bytes()
StoreCrc(data) ==
    LET crc == calc_crc32(data)
        len == Len(data)
    IN  [i \in 1..len |-> IF i > len - 4 THEN crc[i - (len - 4)] ELSE data[i]]

\* self.device.write(data): accepted or failed
WriteOutcomes == {TRUE, FALSE}

\* An operation is called: the session has room for one more in this run.
Called ==
    /\ n_ops < MaxOps
    /\ n_ops' = n_ops + 1
    /\ UNCHANGED <<is_bt, product_id, input_report>>
    /\ UNCHANGED <<daemon_vars, fw_vars, app_vars, client_vars, wait_vars,
                   pure_vars, poll_vars, other_vars>>

\* send_output_report(&mut buf), called by a set_* that has built buf with
\* init_output_report
send_output_report(name, data) ==
    /\ Called
    /\ output_seq' = NextOutputSeq(is_bt, output_seq)
    /\ UNCHANGED update_mode
    /\ IF is_updating(update_mode)
       THEN /\ handed' = <<>>
            /\ last_op' = [name |-> name, updating |-> update_mode,
                           ok |-> TRUE, err |-> "", hid |-> FALSE]
            /\ UNCHANGED <<n_written, hid_in_update>>
       ELSE /\ handed' = IF is_bt THEN StoreCrc(data) ELSE data
            /\ hid_in_update' = (hid_in_update \/ update_mode)
            /\ \E accepted \in WriteOutcomes :
                  /\ n_written' = IF accepted THEN (n_written + 1) % 16
                                  ELSE n_written
                  /\ last_op' = [name |-> name, updating |-> update_mode,
                                 ok |-> accepted,
                                 err |-> IF accepted THEN ""
                                         ELSE "hid write error",
                                 hid |-> TRUE]

\* bail!() before init_output_report
Rejected(name, msg) ==
    /\ Called
    /\ handed' = <<>>
    /\ last_op' = [name |-> name, updating |-> update_mode, ok |-> FALSE,
                   err |-> msg, hid |-> FALSE]
    /\ UNCHANGED <<output_seq, n_written, hid_in_update, update_mode>>

set_lightbar_u8_product(r, g, b, brightness) ==
    LET buf == init_output_report(is_bt, output_seq)
        o == BodyOffset(is_bt)
        b1 == Put(buf, o + 1, DS_OUTPUT_VALID_FLAG1_LIGHTBAR_CONTROL_ENABLE)
        b2 == Put(b1, o + 44, ((brightness * r) % 256) \div 255)
        b3 == Put(b2, o + 45, ((brightness * g) % 256) \div 255)
        b4 == Put(b3, o + 46, ((brightness * b) % 256) \div 255)
    IN  send_output_report("set_lightbar", b4)
set_lightbar(r, g, b, brightness) ==
    LET buf == init_output_report(is_bt, output_seq)
        o == BodyOffset(is_bt)
        b1 == Put(buf, o + 1, DS_OUTPUT_VALID_FLAG1_LIGHTBAR_CONTROL_ENABLE)
        b2 == Put(b1, o + 44, ((brightness * r) \div 255) % 256)
        b3 == Put(b2, o + 45, ((brightness * g) \div 255) % 256)
        b4 == Put(b3, o + 46, ((brightness * b) \div 255) % 256)
    IN  send_output_report("set_lightbar", b4)

set_lightbar_enabled(enabled) ==
    LET buf == init_output_report(is_bt, output_seq)
        o == BodyOffset(is_bt)
        b1 == Put(buf, o + 38,
                  DS_OUTPUT_VALID_FLAG2_LIGHTBAR_SETUP_CONTROL_ENABLE)
        b2 == Put(b1, o + 41, IF enabled THEN DS_OUTPUT_LIGHTBAR_SETUP_LIGHT_ON
                              ELSE DS_OUTPUT_LIGHTBAR_SETUP_LIGHT_OFF)
    IN  send_output_report("set_lightbar_enabled", b2)

\* the check on n made after the report has been built and sent
set_player_leds_late_check(n) ==
    IF n >= Len(PLAYER_LED_PATTERNS)
    THEN send_output_report("set_player_leds",
                            init_output_report(is_bt, output_seq))
    ELSE LET buf == init_output_report(is_bt, output_seq)
             o == BodyOffset(is_bt)
             b1 == Put(buf, o + 1,
                       DS_OUTPUT_VALID_FLAG1_PLAYER_INDICATOR_CONTROL_ENABLE)
             b2 == Put(b1, o + 43, PLAYER_LED_PATTERNS[n + 1])
         IN  send_output_report("set_player_leds", b2)
set_player_leds(n) ==
    IF n >= Len(PLAYER_LED_PATTERNS)
    THEN Rejected("set_player_leds", "Invalid player number")
    ELSE LET buf == init_output_report(is_bt, output_seq)
             o == BodyOffset(is_bt)
             b1 == Put(buf, o + 1,
                       DS_OUTPUT_VALID_FLAG1_PLAYER_INDICATOR_CONTROL_ENABLE)
             b2 == Put(b1, o + 43, PLAYER_LED_PATTERNS[n + 1])
         IN  send_output_report("set_player_leds", b2)

set_speaker(mode) ==
    LET buf == init_output_report(is_bt, output_seq)
        o == BodyOffset(is_bt)
        b1 == Put(buf, o, DS_OUTPUT_VALID_FLAG0_AUDIO_CONTROL_ENABLE)
        b2 == Put(b1, o + 7,
                  CASE mode = "internal" ->
                         3 * 2 ^ DS_OUTPUT_AUDIO_OUTPUT_PATH_SHIFT
                    [] mode = "headphone" -> 0
                    [] mode = "both" -> 2 * 2 ^ DS_OUTPUT_AUDIO_OUTPUT_PATH_SHIFT
                    [] OTHER -> 0)
    IN  send_output_report("set_speaker", b2)

set_volume(volume) ==
    LET buf == init_output_report(is_bt, output_seq)
        o == BodyOffset(is_bt)
        b1 == Put(buf, o, DS_OUTPUT_VALID_FLAG0_HEADPHONE_VOLUME_ENABLE)
        b2 == Put(b1, o + 4, ((volume * 127) \div 255) % 256)
        b3 == Put(b2, o, BitOr(At(b2, o),
                               DS_OUTPUT_VALID_FLAG0_SPEAKER_VOLUME_ENABLE))
        b4 == Put(b3, o + 5, ((volume * 100) \div 255) % 256)
    IN  send_output_report("set_volume", b4)

set_vibration(rumble, trigger) ==
    LET buf == init_output_report(is_bt, output_seq)
        o == BodyOffset(is_bt)
        b1 == Put(buf, o + 1, DS_OUTPUT_VALID_FLAG1_VIBRATION_ATTENUATION_ENABLE)
        b2 == Put(b1, o + 36, BitOr(BitAnd(rumble, 7),
                                    (BitAnd(trigger, 7) * 16) % 256))
    IN  send_output_report("set_vibration", b2)

set_mic(enabled) ==
    LET buf == init_output_report(is_bt, output_seq)
        o == BodyOffset(is_bt)
        b1 == Put(buf, o + 1, DS_OUTPUT_VALID_FLAG1_POWER_SAVE_CONTROL_ENABLE)
        b2 == IF enabled
              THEN Put(b1, o + 9,
                       BitClear(BitClear(At(b1, o + 9),
                                         DS_OUTPUT_POWER_SAVE_CONTROL_MIC_MUTE),
                                DS_OUTPUT_POWER_SAVE_CONTROL_AUDIO))
              ELSE Put(b1, o + 9,
                       BitOr(At(b1, o + 9),
                             DS_OUTPUT_POWER_SAVE_CONTROL_MIC_MUTE))
    IN  send_output_report("set_mic", b2)

\* MicLedState::Off | On | Pulse
set_mic_led(state) ==
    LET buf == init_output_report(is_bt, output_seq)
        o == BodyOffset(is_bt)
        b1 == Put(buf, o + 1, DS_OUTPUT_VALID_FLAG1_MIC_MUTE_LED_CONTROL_ENABLE)
        b2 == Put(b1, o + 8, CASE state = "Off" -> 0
                               [] state = "On" -> 1
                               [] state = "Pulse" -> 2)
    IN  send_output_report("set_mic_led", b2)

\* params.iter().enumerate().take(10): buf[base + i] = p
PutParams(buf, base, params) ==
    [i \in 1..Len(buf) |->
        IF i - 1 >= base /\ i - 1 < base + Min(Len(params), 10)
        THEN params[i - base] ELSE buf[i]]

TriggerEffectBody(buf, o, left, right, mode, params) ==
    LET b1 == IF right
              THEN Put(buf, o,
                       BitOr(At(buf, o),
                             DS_OUTPUT_VALID_FLAG0_RIGHT_TRIGGER_MOTOR_ENABLE))
              ELSE buf
        b2 == IF left
              THEN Put(b1, o,
                       BitOr(At(b1, o),
                             DS_OUTPUT_VALID_FLAG0_LEFT_TRIGGER_MOTOR_ENABLE))
              ELSE b1
        b3 == PutParams(Put(b2, o + 10, mode), o + 11, params)
    IN  PutParams(Put(b3, o + 21, mode), o + 22, params)

set_trigger_effect(left, right, mode, params) ==
    send_output_report("set_trigger_effect",
        TriggerEffectBody(init_output_report(is_bt, output_seq),
                          BodyOffset(is_bt), left, right, mode, params))

set_trigger_off ==
    send_output_report("set_trigger_off",
        TriggerEffectBody(init_output_report(is_bt, output_seq),
                          BodyOffset(is_bt), TRUE, TRUE, DS_TRIGGER_EFFECT_OFF,
                          <<0, 0, 0, 0, 0, 0, 0, 0, 0, 0>>))

\* get_input_state up to the report check: the decoding that follows neither
\* fails nor touches the device
get_input_state(updating, bt, rep) ==
    IF updating THEN [ok |-> FALSE, err |-> "", read |-> FALSE]
    ELSE IF rep.size < 0 THEN [ok |-> FALSE, err |-> "hid read error", read |-> TRUE]
    ELSE IF rep.size = 0
    THEN [ok |-> FALSE, err |-> "Timeout reading input state", read |-> TRUE]
    ELSE LET id == IF bt THEN DS_INPUT_REPORT_BT ELSE DS_INPUT_REPORT_USB
             expected_size == IF bt THEN DS_INPUT_REPORT_BT_SIZE
                              ELSE DS_INPUT_REPORT_USB_SIZE
         IN  IF rep.id # id \/ rep.size # expected_size
             THEN [ok |-> FALSE, err |-> "Unexpected input report", read |-> TRUE]
             ELSE [ok |-> TRUE, err |-> "", read |-> TRUE]

\* A read operation with result r
ReadOp(name, r) ==
    /\ Called
    /\ handed' = <<>>
    /\ last_op' = [name |-> name, updating |-> update_mode, ok |-> r.ok,
                   err |-> r.err, hid |-> r.read]
    /\ hid_in_update' = (hid_in_update \/ (update_mode /\ r.read))
    /\ UNCHANGED <<output_seq, n_written, update_mode>>

SessionGetInputState ==
    \E rep \in InputReports :
       ReadOp("get_input_state",
              get_input_state(is_updating(update_mode), is_bt, rep))

SessionGetBattery ==
    \E rep \in InputReports :
       ReadOp("get_battery", get_battery(is_updating(update_mode), is_bt, rep))

\* DualSense::set_update_mode(active)
SessionSetUpdateMode(active) ==
    /\ Called
    /\ update_mode' = active
    /\ handed' = <<>>
    /\ last_op' = [name |-> "set_update_mode", updating |-> update_mode,
                   ok |-> TRUE, err |-> "", hid |-> FALSE]
    /\ UNCHANGED <<output_seq, n_written, hid_in_update>>

\* Arguments the callers pass
LightbarArgs == {<<255, 128, 0, 255>>, <<10, 200, 30, 100>>}
PlayerNumbers == {0, 3, 7, 8}
SpeakerModes == {"internal", "headphone", "both", "other"}
Volumes == {0, 200, 255}
VibrationArgs == {<<5, 3>>, <<255, 9>>}
MicLedStates == {"Off", "On", "Pulse"}
TriggerArgs ==
    {[left |-> TRUE, right |-> FALSE, mode |-> 33,
      params |-> <<1, 2, 3, 4, 5, 6, 7, 8, 9, 10>>],
     [left |-> FALSE, right |-> TRUE, mode |-> 38,
      params |-> <<255, 254, 253, 252, 251, 250, 249, 248, 247, 246, 245, 244>>],
     [left |-> TRUE, right |-> TRUE, mode |-> 1, params |-> <<9, 8>>]}

\* A session that has had ReportsBefore output reports accepted since
\* DualSense::new, every one of them outside update mode.
ReportsBefore == {0, 14, 15}

InitSession ==
    /\ DaemonInit
    /\ plugged
    /\ AppIdle
    /\ ClientIdle
    /\ WaitIdle
    /\ PureIdle
    /\ PollIdle
    /\ OtherIdle
    /\ is_bt \in BOOLEAN
    /\ product_id = DS_PID
    /\ update_mode = FALSE
    /\ input_report = ReadError
    /\ fw_len = 0
    /\ fw_pid = DS_PID
    /\ sink = "flash_file"
    /\ dl_len = 0
    /\ dl_total = 0
    /\ fw_pc = "idle"
    /\ LoopInit
    /\ HistoryInit
    /\ \E k \in ReportsBefore :
          /\ output_seq = IF is_bt THEN k ELSE 0
          /\ n_written = k
    /\ handed = <<>>
    /\ last_op = NoOp
    /\ hid_in_update = FALSE
    /\ n_ops = 0

NextSession ==
    \/ \E a \in LightbarArgs : set_lightbar(a[1], a[2], a[3], a[4])
    \/ \E e \in BOOLEAN : set_lightbar_enabled(e)
    \/ \E n \in PlayerNumbers : set_player_leds(n)
    \/ \E m \in SpeakerModes : set_speaker(m)
    \/ \E v \in Volumes : set_volume(v)
    \/ \E a \in VibrationArgs : set_vibration(a[1], a[2])
    \/ \E e \in BOOLEAN : set_mic(e)
    \/ \E st \in MicLedStates : set_mic_led(st)
    \/ \E a \in TriggerArgs : set_trigger_effect(a.left, a.right, a.mode, a.params)
    \/ set_trigger_off
    \/ SessionGetInputState
    \/ SessionGetBattery
    \/ \E active \in BOOLEAN : SessionSetUpdateMode(active)

SpecSession == InitSession /\ [][NextSession]_vars

\* C17: on a BT session output_seq equals the number of output reports
\* written, mod 16, and on USB it stays 0, whatever operations were called.
C17_SeqCountsReportsWritten ==
    IF is_bt THEN output_seq = n_written ELSE output_seq = 0

\* The CRC-32 of a whole byte sequence
Crc32(bytes) == CrcFinalize(CrcUpdate(CrcInit, bytes, 1, Len(bytes)))

\* C18: every buffer handed to the HID write is well-formed for its transport:
\* USB - 63 bytes, byte 0 is 0x02; BT - 78 bytes, byte 0 is 0x31, byte 1 is the
\* sequence number the report was built with, shifted left by 4, byte 2 is
\* 0x10, and the last 4 bytes are the little-endian CRC32 of 0xA2 followed by
\* the first 74 bytes of the buffer as handed over.
C18_OutputReportWellFormed ==
    handed # <<>> =>
       IF is_bt
       THEN /\ Len(handed) = 78
            /\ handed[1] = 49
            /\ handed[2] = ((output_seq + 15) % 16) * 16
            /\ handed[3] = 16
            /\ SubSeq(handed, 75, 78) = Crc32(<<162>> \o SubSeq(handed, 1, 74))
       ELSE /\ Len(handed) = 63
            /\ handed[1] = 2

C18_Witness ==
    /\ is_bt
    /\ handed # <<>>
    /\ last_op.name = "set_lightbar"
    /\ handed[2] = 240
    /\ handed[49] = 128
    /\ output_seq = 0

Getters == {"get_input_state", "get_battery"}
Setters ==
    {"set_lightbar", "set_lightbar_enabled", "set_player_leds", "set_speaker",
     "set_volume", "set_vibration", "set_mic", "set_mic_led",
     "set_trigger_effect", "set_trigger_off"}

\* C19 as stated: an operation called while update_mode is true does not reach
\* the HID handle; get_input_state and get_battery return an error and every
\* set_* returns Ok.
C19_EverySetReturnsOk ==
    /\ ~hid_in_update
    /\ last_op.updating =>
          /\ ~last_op.hid
          /\ last_op.name \in Getters => ~last_op.ok
          /\ last_op.name \in Setters => last_op.ok

\* C19: an operation called while update_mode is true does not reach the HID
\* handle: no input read and no output-report write happens between
\* set_update_mode(true) and set_update_mode(false); get_input_state and
\* get_battery return the empty error, and a set_* returns Ok unless it is
\* set_player_leds with a player number of 8 or more, which returns its
\* argument error as it does outside update mode.
C19_UpdateModeBlocksHid ==
    /\ ~hid_in_update
    /\ last_op.updating =>
          /\ ~last_op.hid
          /\ handed = <<>>
          /\ last_op.name \in Getters => ~last_op.ok /\ last_op.err = ""
          /\ last_op.name \in Setters =>
                \/ last_op.ok
                \/ /\ last_op.name = "set_player_leds"
                   /\ last_op.err = "Invalid player number"

C19_Witness ==
    /\ update_mode
    /\ last_op.updating
    /\ last_op.name = "set_trigger_off"
    /\ last_op.ok
    /\ n_ops = MaxOps

(***************************************************************************)
(* SpecWait: one iteration of firmware_wait_status for every expected       *)
(* phase its callers pass and every answer of the controller.               *)
(***************************************************************************)
\* firmware_start, firmware_write and firmware_verify
ExpectedPhases == {0, 1, 2}
\* buf[1] and buf[2] of the report read
ReportedPhases == {0, 1, 2, 3, 255}
ReportedStatus == 0..255

InitWait ==
    /\ DaemonInit
    /\ plugged
    /\ FwIdle
    /\ AppIdle
    /\ ClientIdle
    /\ SessionIdle
    /\ PureIdle
    /\ PollIdle
    /\ OtherIdle
    /\ ws_expected \in ExpectedPhases
    /\ ws_answer \in [phase : ReportedPhases, status : ReportedStatus]
    /\ ws_out = Pending

WaitStatusPoll ==
    /\ ws_out = Pending
    /\ \E timed_out \in TimeoutChoices :
          ws_out' = firmware_wait_status(ws_expected, timed_out, ws_answer)
    /\ UNCHANGED <<ws_expected, ws_answer>>
    /\ UNCHANGED <<daemon_vars, session_vars, fw_vars, app_vars, client_vars,
                   harness_vars, pure_vars, poll_vars, other_vars>>

NextWait == WaitStatusPoll

SpecWait == InitWait /\ [][NextWait]_vars

\* The status table as the specification gives it.
TableAction(expected, status) ==
    CASE expected = 0 /\ status = 0 -> "done"
      [] expected = 0 /\ status \in {4, 16} -> "retry"
      [] expected = 1 /\ status \in {0, 3} -> "done"
      [] expected = 1 /\ status \in {1, 16} -> "retry"
      [] expected = 2 /\ status = 0 -> "done"
      [] expected = 2 /\ status = 16 -> "retry"
      [] OTHER -> "fail"

\* C20: firmware_wait_status(expected) does what the status table says for
\* every expected phase and status byte - done, retry or fail - and fails on
\* a reported phase other than the expected one whatever the status byte.
C20_StatusTable ==
    ws_out # Pending =>
       IF ws_answer.phase # ws_expected
       THEN ws_out = "Unexpected phase"
       ELSE CASE TableAction(ws_expected, ws_answer.status) = "done" ->
                   ws_out = "done"
              [] TableAction(ws_expected, ws_answer.status) = "retry" ->
                   ws_out = "retry"
              [] OTHER -> ws_out = "status error"

C20_Witness ==
    /\ ws_out = "done"
    /\ ws_expected = 1
    /\ ws_answer = [phase |-> 1, status |-> 3]

(***************************************************************************)
(* SpecDecode: get_input_state and get_battery applied to one report read   *)
(* from the controller.                                                     *)
(***************************************************************************)
TOUCHPAD_MAX_X == 1920
TOUCHPAD_MAX_Y == 1080

\* the status string of get_battery's match on charging_status
BatteryStatus(status_byte) ==
    LET charging_status == (status_byte \div (2 ^ DS_STATUS_CHARGING_SHIFT)) % 16
    IN  CASE charging_status = 0 -> "Discharging"
          [] charging_status = 1 -> "Charging"
          [] charging_status = 2 -> "Full"
          [] charging_status \in {10, 11} -> "Not charging"
          [] OTHER -> "Unknown"

\* let dpad = d[7] & 0xf
decode_dpad(b0) == BitAnd(b0, 15)

\* the buttons mask from d[7], d[8], d[9]
decode_buttons(b0, b1, b2) == (b0 \div 16) + b1 * 16 + BitAnd(b2, 7) * 4096

\* TouchPoint::default()
NoTouch == [active |-> FALSE, id |-> 0, x |-> 0, y |-> 0]

\* one round of the touch loop on d[base .. base + 3]
touch_point_unclamped(t) ==
    IF BitAnd(t[1], 128) # 0 THEN NoTouch
    ELSE [active |-> TRUE, id |-> BitAnd(t[1], 127),
          x |-> t[2] + BitAnd(t[3], 15) * 256,
          y |-> (t[3] \div 16) + t[4] * 16]
touch_point(t) ==
    IF BitAnd(t[1], 128) # 0 THEN NoTouch
    ELSE [active |-> TRUE, id |-> BitAnd(t[1], 127),
          x |-> Min(t[2] + BitAnd(t[3], 15) * 256, TOUCHPAD_MAX_X - 1),
          y |-> Min((t[3] \div 16) + t[4] * 16, TOUCHPAD_MAX_Y - 1)]

\* the ControllerState fields decoded from the buttons and touch bytes
decode_input_state(rep) ==
    LET p1 == touch_point(rep.touch[1])
        p2 == touch_point(rep.touch[2])
    IN  [dpad |-> decode_dpad(rep.b[1]),
         buttons |-> decode_buttons(rep.b[1], rep.b[2], rep.b[3]),
         touch_points |-> <<p1, p2>>,
         touch_count |-> ((IF p1.active THEN 1 ELSE 0)
                          + (IF p2.active THEN 1 ELSE 0)) % 256]

\* Reports: what read_timeout returned (size, buf[0]) and the bytes decoded
QuietTouch == <<128, 0, 0, 0>>
Framing(bt) ==
    [size |-> IF bt THEN DS_INPUT_REPORT_BT_SIZE ELSE DS_INPUT_REPORT_USB_SIZE,
     id |-> IF bt THEN DS_INPUT_REPORT_BT ELSE DS_INPUT_REPORT_USB]
Report(size, id, status, b, touch) ==
    [size |-> size, id |-> id, status |-> status, b |-> b, touch |-> touch]
TouchBytes ==
    {0, 127, 128} \X {0, 255} \X {0, 15, 112, 240, 255} \X {0, 67, 68, 255}
DecodeReports(bt) ==
    \* any size and id
    {Report(sz, id, 26, <<8, 0, 0>>, <<QuietTouch, QuietTouch>>) :
        sz \in {-1, 0, 10, 63, 64, 77, 78}, id \in {0, 1, 49}}
    \* every status byte
    \cup {Report(Framing(bt).size, Framing(bt).id, st, <<8, 0, 0>>,
                 <<QuietTouch, QuietTouch>>) : st \in 0..255}
    \* every buttons byte 0
    \cup {Report(Framing(bt).size, Framing(bt).id, 26, <<b0, 165, 5>>,
                 <<QuietTouch, QuietTouch>>) : b0 \in 0..255}
    \* touch points
    \cup {Report(Framing(bt).size, Framing(bt).id, 26, <<8, 0, 0>>, <<t1, t2>>) :
             t1 \in TouchBytes, t2 \in {QuietTouch, <<1, 255, 255, 255>>}}

InitDecode ==
    /\ DaemonInit
    /\ plugged
    /\ FwIdle
    /\ AppIdle
    /\ ClientIdle
    /\ SessionIdle
    /\ WaitIdle
    /\ PollIdle
    /\ OtherIdle
    /\ \E bt \in BOOLEAN : \E rep \in DecodeReports(bt) :
          fn_arg = [fn |-> "read", bt |-> bt, rep |-> rep]
    /\ fn_result = NotApplied

\* Only fn_result changes when a function is applied.
Applied ==
    /\ ~fn_result.done
    /\ UNCHANGED <<fn_arg, daemon_vars, session_vars, fw_vars, app_vars,
                   client_vars, harness_vars, wait_vars, poll_vars, other_vars>>

DecodeInputState ==
    /\ Applied
    /\ LET r == get_input_state(is_updating(update_mode), fn_arg.bt, fn_arg.rep)
       IN  fn_result' =
              IF r.ok
              THEN [done |-> TRUE, fn |-> "get_input_state", ok |-> TRUE,
                    state |-> decode_input_state(fn_arg.rep)]
              ELSE [done |-> TRUE, fn |-> "get_input_state", ok |-> FALSE]

DecodeBattery ==
    /\ Applied
    /\ LET r == get_battery(is_updating(update_mode), fn_arg.bt, fn_arg.rep)
       IN  fn_result' =
              IF r.ok
              THEN [done |-> TRUE, fn |-> "get_battery", ok |-> TRUE,
                    capacity |-> r.capacity,
                    status |-> BatteryStatus(fn_arg.rep.status)]
              ELSE [done |-> TRUE, fn |-> "get_battery", ok |-> FALSE]

NextDecode == DecodeInputState \/ DecodeBattery

SpecDecode == InitDecode /\ [][NextDecode]_vars

\* C21: get_input_state and get_battery return an error, and no decoded state
\* or battery value, when the report read has an id other than the
\* transport's (0x01 USB, 0x31 BT), a size other than the transport's (64
\* USB, 78 BT), or the read timed out with 0 bytes.
C21_BadReportRejected ==
    fn_result.done =>
       LET rep == fn_arg.rep
           id == IF fn_arg.bt THEN 49 ELSE 1
           size == IF fn_arg.bt THEN 78 ELSE 64
       IN  (rep.id # id \/ rep.size # size \/ rep.size = 0)
              => /\ ~fn_result.ok
                 /\ DOMAIN fn_result = {"done", "fn", "ok"}

C21_Witness ==
    /\ fn_result.done
    /\ fn_result.fn = "get_battery"
    /\ ~fn_result.ok
    /\ ~fn_arg.bt
    /\ fn_arg.rep.size = 78
    /\ fn_arg.rep.id = 1

\* The battery table as the specification gives it.
TableBattery(status_byte) ==
    LET low == status_byte % 16
        high == status_byte \div 16
    IN  CASE high = 0 -> [capacity |-> Min(100, low * 10 + 5), status |-> "Discharging"]
          [] high = 1 -> [capacity |-> Min(100, low * 10 + 5), status |-> "Charging"]
          [] high = 2 -> [capacity |-> Min(100, low * 10 + 5), status |-> "Full"]
          [] high \in {10, 11} -> [capacity |-> 0, status |-> "Not charging"]
          [] OTHER -> [capacity |-> 0, status |-> "Unknown"]

\* C22: for every status byte the decoded battery is the table's capacity and
\* status; the capacity is at most 100 and the u8 arithmetic does not wrap.
C22_BatteryDecoding ==
    (fn_result.done /\ fn_result.fn = "get_battery" /\ fn_result.ok) =>
       /\ fn_result.capacity = TableBattery(fn_arg.rep.status).capacity
       /\ fn_result.status = TableBattery(fn_arg.rep.status).status
       /\ fn_result.capacity <= 100
       /\ (fn_arg.rep.status % 16) * 10 + 5 < 256

C22_Witness ==
    /\ fn_result.done
    /\ fn_result.fn = "get_battery"
    /\ fn_result.ok
    /\ fn_arg.rep.status = 47
    /\ fn_result.capacity = 100
    /\ fn_result.status = "Full"

\* C23: in every accepted input report each decoded touch point has
\* x <= 1919 and y <= 1079, and touch_count is the number of active points.
C23_TouchPointsInRange ==
    (fn_result.done /\ fn_result.fn = "get_input_state" /\ fn_result.ok) =>
       LET st == fn_result.state
       IN  /\ \A i \in 1..2 : /\ st.touch_points[i].x <= 1919
                              /\ st.touch_points[i].y <= 1079
           /\ st.touch_count = Cardinality({i \in 1..2 : st.touch_points[i].active})

C23_Witness ==
    /\ fn_result.done
    /\ fn_result.fn = "get_input_state"
    /\ fn_result.ok
    /\ fn_arg.rep.touch = <<<<0, 255, 255, 255>>, <<1, 255, 255, 255>>>>
    /\ fn_result.state.touch_count = 2
    /\ fn_result.state.touch_points[1].x = 1919
    /\ fn_result.state.touch_points[1].y = 1079

\* C24: in every accepted input report the decoded dpad is between 0 and 8,
\* whatever the low nibble of payload byte 7.
C24_DpadInRange ==
    (fn_result.done /\ fn_result.fn = "get_input_state" /\ fn_result.ok) =>
       fn_result.state.dpad \in 0..8

(***************************************************************************)
(* SpecButtons: the button stage of InputTransform::apply.                  *)
(***************************************************************************)
DPAD_N == 0
DPAD_NE == 1
DPAD_E == 2
DPAD_SE == 3
DPAD_S == 4
DPAD_SW == 5
DPAD_W == 6
DPAD_NW == 7
DPAD_NEUTRAL == 8

\* the buttons that have a bit in the mask, in the order of their bits
MaskButtons ==
    <<"Square", "Cross", "Circle", "Triangle", "L1", "R1", "L2", "R2",
      "Create", "Options", "L3", "R3", "PS", "Touchpad", "Mute">>
DirButtons == <<"DPadUp", "DPadRight", "DPadDown", "DPadLeft">>
Button == {MaskButtons[i] : i \in 1..15} \cup {DirButtons[i] : i \in 1..4}

\* BTN_SQUARE ... BTN_MUTE: 1 << (i - 1)
BTN(i) == 2 ^ (i - 1)

dpad_to_dirs(dpad) ==
    CASE dpad = DPAD_N -> <<TRUE, FALSE, FALSE, FALSE>>
      [] dpad = DPAD_NE -> <<TRUE, TRUE, FALSE, FALSE>>
      [] dpad = DPAD_E -> <<FALSE, TRUE, FALSE, FALSE>>
      [] dpad = DPAD_SE -> <<FALSE, TRUE, TRUE, FALSE>>
      [] dpad = DPAD_S -> <<FALSE, FALSE, TRUE, FALSE>>
      [] dpad = DPAD_SW -> <<FALSE, FALSE, TRUE, TRUE>>
      [] dpad = DPAD_W -> <<FALSE, FALSE, FALSE, TRUE>>
      [] dpad = DPAD_NW -> <<TRUE, FALSE, FALSE, TRUE>>
      [] OTHER -> <<FALSE, FALSE, FALSE, FALSE>>

dirs_to_dpad_turned(d) ==
    CASE d = <<TRUE, FALSE, FALSE, FALSE>> -> DPAD_NE
      [] d = <<TRUE, TRUE, FALSE, FALSE>> -> DPAD_E
      [] d = <<FALSE, TRUE, FALSE, FALSE>> -> DPAD_SE
      [] OTHER -> DPAD_NEUTRAL
dirs_to_dpad(d) ==
    CASE d = <<TRUE, FALSE, FALSE, FALSE>> -> DPAD_N
      [] d = <<TRUE, TRUE, FALSE, FALSE>> -> DPAD_NE
      [] d = <<FALSE, TRUE, FALSE, FALSE>> -> DPAD_E
      [] d = <<FALSE, TRUE, TRUE, FALSE>> -> DPAD_SE
      [] d = <<FALSE, FALSE, TRUE, FALSE>> -> DPAD_S
      [] d = <<FALSE, FALSE, TRUE, TRUE>> -> DPAD_SW
      [] d = <<FALSE, FALSE, FALSE, TRUE>> -> DPAD_W
      [] d = <<TRUE, FALSE, FALSE, TRUE>> -> DPAD_NW
      [] OTHER -> DPAD_NEUTRAL

\* the `active` array: the buttons that are pressed
ActiveButtons(buttons, dirs) ==
    {MaskButtons[i] : i \in {j \in 1..15 : BitAnd(buttons, BTN(j)) # 0}}
    \cup {DirButtons[i] : i \in {j \in 1..4 : dirs[j]}}

\* encode_button over a set of targets: the mask (the |= of distinct bits)
RECURSIVE EncodeMask(_, _)
EncodeMask(targets, i) ==
    IF i > 15 THEN 0
    ELSE (IF MaskButtons[i] \in targets THEN BTN(i) ELSE 0)
         + EncodeMask(targets, i + 1)

\* remap: a function from some buttons to buttons; disabled: a set of buttons
remap_buttons(buttons, dpad, remap, disabled) ==
    LET active == ActiveButtons(buttons, dpad_to_dirs(dpad))
        targets == {IF btn \in DOMAIN remap THEN remap[btn] ELSE btn :
                       btn \in active \ disabled}
    IN  <<EncodeMask(targets, 1),
          dirs_to_dpad([i \in 1..4 |-> DirButtons[i] \in targets])>>

\* InputTransform::apply, the button stage
ButtonStage(buttons, dpad, remap, disabled) ==
    IF DOMAIN remap # {} \/ disabled # {}
    THEN remap_buttons(buttons, dpad, remap, disabled)
    ELSE <<buttons, dpad>>

NoRemap == [btn \in {} |-> btn]
IdentityRemap == [btn \in Button |-> btn]
Remaps ==
    {NoRemap, IdentityRemap, [btn \in {"Square", "DPadLeft"} |-> btn],
     [btn \in {"Square"} |-> "Cross"], [btn \in {"Cross"} |-> "DPadUp"],
     [btn \in {"DPadUp"} |-> "Square"]}
DisabledSets == {{}, {"Cross"}, {"DPadUp"}, {"Square"}, {"Cross", "DPadUp"}}
ButtonMasks == {0, 1, 2, 3, 16, 21845, 32767, 32768, 65535}
DpadValues == 0..15 \cup {255}

InitButtons ==
    /\ DaemonInit
    /\ plugged
    /\ FwIdle
    /\ AppIdle
    /\ ClientIdle
    /\ SessionIdle
    /\ WaitIdle
    /\ PollIdle
    /\ OtherIdle
    /\ \E b \in ButtonMasks, d \in DpadValues, r \in Remaps, x \in DisabledSets :
          fn_arg = [fn |-> "buttons", buttons |-> b, dpad |-> d, remap |-> r,
                    disabled |-> x]
    /\ fn_result = NotApplied

\* apply on a state
ApplyButtons ==
    /\ Applied
    /\ LET out == ButtonStage(fn_arg.buttons, fn_arg.dpad, fn_arg.remap,
                              fn_arg.disabled)
       IN  fn_result' = [done |-> TRUE, times |-> 1, buttons |-> out[1],
                         dpad |-> out[2], first |-> out]

\* apply on the state the first apply left
ApplyButtonsAgain ==
    /\ fn_result.done
    /\ fn_result.times = 1
    /\ LET out == ButtonStage(fn_result.buttons, fn_result.dpad, fn_arg.remap,
                              fn_arg.disabled)
       IN  fn_result' = [fn_result EXCEPT !.times = 2, !.buttons = out[1],
                                          !.dpad = out[2]]
    /\ UNCHANGED <<fn_arg, daemon_vars, session_vars, fw_vars, app_vars,
                   client_vars, harness_vars, wait_vars, poll_vars, other_vars>>

NextButtons == ApplyButtons \/ ApplyButtonsAgain

SpecButtons == InitButtons /\ [][NextButtons]_vars

\* The buttons pressed in a (mask, dpad) pair, read with the published bit
\* and direction tables
Pressed(buttons, dpad) == ActiveButtons(buttons, dpad_to_dirs(dpad))

\* C25: no button of disabled_buttons is pressed in the output of the
\* transform, as a bit of the mask or as a dpad direction, also when a
\* pressed button is remapped onto a disabled one.
C25_DisabledNeverPressed ==
    fn_result.done =>
       Pressed(fn_result.buttons, fn_result.dpad) \cap fn_arg.disabled = {}

\* C26: with an identity remap table and no disabled buttons, applying the
\* button stage twice gives what applying it once gives.
C26_IdentityRemapIdempotent ==
    (/\ fn_result.done
     /\ fn_result.times = 2
     /\ fn_arg.disabled = {}
     /\ \A btn \in DOMAIN fn_arg.remap : fn_arg.remap[btn] = btn)
       => <<fn_result.buttons, fn_result.dpad>> = fn_result.first

C26_Witness ==
    /\ fn_result.done
    /\ fn_result.times = 2
    /\ fn_arg.remap = IdentityRemap
    /\ fn_arg.disabled = {}
    /\ fn_arg.buttons = 65535
    /\ fn_arg.dpad = 1
    /\ fn_result.buttons = 32767
    /\ fn_result.dpad = 1

(***************************************************************************)
(* SpecFeedback: DS4UApp::apply_trigger in TriggerMode::Feedback.           *)
(***************************************************************************)
\* strengths[i] for i in 0..10 after the first loop
FeedbackStrengths_after(position, strength) ==
    [i \in 0..9 |-> IF i > position THEN strength ELSE 0]
FeedbackStrengths(position, strength) ==
    [i \in 0..9 |-> IF i >= position THEN strength ELSE 0]

\* active_zones and strength_zones: the |= of bit fields that do not overlap
RECURSIVE ActiveZones(_, _)
ActiveZones(strengths, i) ==
    IF i > 9 THEN 0
    ELSE (IF strengths[i] > 0 THEN 2 ^ i ELSE 0) + ActiveZones(strengths, i + 1)

RECURSIVE StrengthZones(_, _)
StrengthZones(strengths, i) ==
    IF i > 9 THEN 0
    ELSE (IF strengths[i] > 0
          THEN BitAnd(strengths[i] - 1, 7) * 2 ^ (3 * i) ELSE 0)
         + StrengthZones(strengths, i + 1)

\* the two integers written most significant byte first
FeedbackCall_big_endian(position, strength) ==
    LET strengths == FeedbackStrengths(position, strength)
        active_zones == ActiveZones(strengths, 0)
        strength_zones == StrengthZones(strengths, 0)
    IN  [left |-> TRUE, right |-> TRUE, mode |-> 33,
         params |-> <<(active_zones \div 256) % 256,
                      active_zones % 256,
                      (strength_zones \div 16777216) % 256,
                      (strength_zones \div 65536) % 256,
                      (strength_zones \div 256) % 256,
                      strength_zones % 256,
                      0, 0, 0, 0>>]

\* the params array and the set_trigger_effect call
FeedbackCall(position, strength) ==
    LET strengths == FeedbackStrengths(position, strength)
        active_zones == ActiveZones(strengths, 0)
        strength_zones == StrengthZones(strengths, 0)
    IN  [left |-> TRUE, right |-> TRUE, mode |-> 33,
         params |-> <<active_zones % 256,
                      (active_zones \div 256) % 256,
                      strength_zones % 256,
                      (strength_zones \div 256) % 256,
                      (strength_zones \div 65536) % 256,
                      (strength_zones \div 16777216) % 256,
                      0, 0, 0, 0>>]

\* TriggerState.position and TriggerState.strength
Positions == 0..10
Strengths == 0..255

InitFeedback ==
    /\ DaemonInit
    /\ plugged
    /\ FwIdle
    /\ AppIdle
    /\ ClientIdle
    /\ SessionIdle
    /\ WaitIdle
    /\ PollIdle
    /\ OtherIdle
    /\ \E pos \in Positions, str \in Strengths :
          fn_arg = [fn |-> "apply_trigger", position |-> pos, strength |-> str]
    /\ fn_result = NotApplied

ApplyTriggerFeedback ==
    /\ Applied
    /\ fn_result' = [done |-> TRUE,
                     call |-> FeedbackCall(fn_arg.position, fn_arg.strength)]

NextFeedback == ApplyTriggerFeedback

SpecFeedback == InitFeedback /\ [][NextFeedback]_vars

\* C27 as stated: with position 3 and strength 5 the Feedback encoder sends
\* mode 0x21 to both triggers with the parameter bytes
\* F8 03 00 20 49 92 00 00 00 00.
C27_FeedbackBytesAsStated ==
    (fn_result.done /\ fn_arg.position = 3 /\ fn_arg.strength = 5) =>
       fn_result.call = [left |-> TRUE, right |-> TRUE, mode |-> 33,
                         params |-> <<248, 3, 0, 32, 73, 146, 0, 0, 0, 0>>]

\* C27: with position 3 and strength 5 the Feedback encoder sends mode 0x21
\* to both triggers with the parameter bytes F8 03 00 48 92 24 00 00 00 00:
\* active_zones = 0x03F8 and strength_zones = 0x24924800, the sum of
\* 4 << 3i for the zones i = 3..9.
C27_FeedbackBytes ==
    (fn_result.done /\ fn_arg.position = 3 /\ fn_arg.strength = 5) =>
       fn_result.call = [left |-> TRUE, right |-> TRUE, mode |-> 33,
                         params |-> <<248, 3, 0, 72, 146, 36, 0, 0, 0, 0>>]

C27_Witness ==
    /\ fn_result.done
    /\ fn_arg.position = 3
    /\ fn_arg.strength = 5
    /\ fn_result.call.params[5] = 146

(***************************************************************************)
(* SpecLightbar: set_lightbar on a USB session, for colours and every       *)
(* brightness.                                                              *)
(***************************************************************************)
LightbarReds == {0, 1, 200, 255}
LightbarGreens == {0, 100, 255}
LightbarBlues == {50, 255}
Brightnesses == 0..255

InitLightbar ==
    /\ DaemonInit
    /\ plugged
    /\ FwIdle
    /\ AppIdle
    /\ ClientIdle
    /\ SessionIdle
    /\ WaitIdle
    /\ PollIdle
    /\ OtherIdle
    /\ \E r \in LightbarReds, g \in LightbarGreens, b \in LightbarBlues,
          br \in Brightnesses :
          fn_arg = [fn |-> "set_lightbar", r |-> r, g |-> g, b |-> b,
                    brightness |-> br]
    /\ fn_result = NotApplied

NextLightbar == set_lightbar(fn_arg.r, fn_arg.g, fn_arg.b, fn_arg.brightness)

SpecLightbar == InitLightbar /\ [][NextLightbar]_vars

\* C28: set_lightbar on USB hands over a 63-byte report with byte 0 = 0x02,
\* byte 2 = 0x04, bytes 45, 46, 47 = floor(r*brightness/255),
\* floor(g*brightness/255), floor(b*brightness/255), the products below
\* 65536, and every other byte zero; (200, 100, 50, 128) gives 100, 50, 25.
C28_LightbarReport ==
    handed # <<>> =>
       /\ Len(handed) = 63
       /\ \A i \in 1..63 :
             handed[i] =
                CASE i = 1 -> 2
                  [] i = 3 -> 4
                  [] i = 46 -> (fn_arg.r * fn_arg.brightness) \div 255
                  [] i = 47 -> (fn_arg.g * fn_arg.brightness) \div 255
                  [] i = 48 -> (fn_arg.b * fn_arg.brightness) \div 255
                  [] OTHER -> 0
       /\ fn_arg.r * fn_arg.brightness < 65536
       /\ <<fn_arg.r, fn_arg.g, fn_arg.b, fn_arg.brightness>> = <<200, 100, 50, 128>>
             => <<handed[46], handed[47], handed[48]>> = <<100, 50, 25>>

C28_Witness ==
    /\ handed # <<>>
    /\ <<fn_arg.r, fn_arg.g, fn_arg.b, fn_arg.brightness>> = <<200, 100, 50, 128>>
    /\ handed[46] = 100
    /\ last_op.ok


\* ---------------------------------------------------------------------
\* Trigger deadband (transform.rs): InputTransform::apply rescales l2 with
\* trigger_left and r2 with trigger_right.
\* ---------------------------------------------------------------------

\* TriggerDeadband::default()
DefaultDeadband == [release |-> 0, full_stroke |-> 255]

\* u8::saturating_add(1)
saturating_add_1(x) == IF x + 1 > 255 THEN 255 ELSE x + 1

\* db.full_stroke.max(db.release.saturating_add(1))
FullOf(db) ==
    IF db.full_stroke >= saturating_add_1(db.release)
    THEN db.full_stroke
    ELSE saturating_add_1(db.release)

\* apply_trigger with the fraction cut off instead of rounded
apply_trigger_truncating(raw, db) ==
    IF db = DefaultDeadband THEN raw
    ELSE IF raw <= db.release THEN 0
    ELSE IF raw >= FullOf(db) THEN 255
    ELSE (255 * (raw - db.release)) \div (FullOf(db) - db.release)

\* apply_trigger: (a as f32 / b as f32 * 255.0).round() as u8 with
\* a = raw - release and b = full - release, 1 <= a < b <= 255.  f32::round
\* rounds halves away from zero; for these operands the f32 quotient and
\* product land on the same integer as the exact value 255a/b rounded half
\* up, which is (510a + b) div 2b.
apply_trigger(raw, db) ==
    IF db = DefaultDeadband THEN raw
    ELSE IF raw <= db.release THEN 0
    ELSE IF raw >= FullOf(db) THEN 255
    ELSE (510 * (raw - db.release) + (FullOf(db) - db.release))
            \div (2 * (FullOf(db) - db.release))

Releases == {0, 1, 2, 50, 100, 127, 128, 200, 253, 254, 255}
FullStrokes == {0, 1, 2, 51, 100, 128, 129, 201, 254, 255}
RawValues == 0..255

\* a controller state whose two triggers are at most one step apart, and a
\* transform with the same deadband on both triggers
InitTrigger ==
    /\ DaemonInit
    /\ plugged
    /\ FwIdle
    /\ AppIdle
    /\ ClientIdle
    /\ SessionIdle
    /\ WaitIdle
    /\ PollIdle
    /\ OtherIdle
    /\ \E rel \in Releases, fs \in FullStrokes, raw \in RawValues,
          step \in {0, 1} :
          fn_arg = [fn |-> "apply", l2 |-> raw,
                    r2 |-> IF raw + step > 255 THEN 255 ELSE raw + step,
                    db |-> [release |-> rel, full_stroke |-> fs]]
    /\ fn_result = NotApplied

\* s.l2 = apply_trigger(s.l2, &self.trigger_left);
\* s.r2 = apply_trigger(s.r2, &self.trigger_right);
ApplyTriggers ==
    /\ Applied
    /\ fn_result' = [done |-> TRUE,
                     l2 |-> apply_trigger(fn_arg.l2, fn_arg.db),
                     r2 |-> apply_trigger(fn_arg.r2, fn_arg.db)]

NextTrigger == ApplyTriggers

SpecTrigger == InitTrigger /\ [][NextTrigger]_vars

\* the value apply_trigger owes for raw under a deadband other than the
\* default: 0 up to release, 255 from full on, and in between the integer
\* nearest to 255 * (raw - release) / (full - release)
TriggerOutputFor(raw, db, out) ==
    LET full == FullOf(db)
        a    == raw - db.release
        b    == full - db.release
    IN  /\ full = IF db.full_stroke >= db.release + 1 THEN db.full_stroke
                  ELSE IF db.release = 255 THEN 255 ELSE db.release + 1
        /\ raw <= db.release => out = 0
        /\ (raw > db.release /\ raw >= full) => out = 255
        /\ (raw > db.release /\ raw < full) =>
              /\ b > 0
              /\ a > 0
              /\ 2 * out * b - 510 * a <= b
              /\ 510 * a - 2 * out * b <= b

\* C29: under a deadband other than the default the output is 0 up to
\* release, 255 from full = max(full_stroke, release + 1) on and the rounded
\* linear interpolation in between, it never decreases when raw grows and it
\* stays in 0..255; under the default deadband the output is raw; the
\* divisor full - release is positive whenever the division is reached and
\* no u8 operation leaves 0..255, release = 255 included.
C29_TriggerDeadband ==
    fn_result.done =>
       /\ fn_result.l2 \in 0..255
       /\ fn_result.r2 \in 0..255
       /\ FullOf(fn_arg.db) \in 0..255
       /\ fn_arg.l2 <= fn_arg.r2 => fn_result.l2 <= fn_result.r2
       /\ fn_arg.db = DefaultDeadband =>
             fn_result.l2 = fn_arg.l2 /\ fn_result.r2 = fn_arg.r2
       /\ fn_arg.db # DefaultDeadband =>
             /\ TriggerOutputFor(fn_arg.l2, fn_arg.db, fn_result.l2)
             /\ TriggerOutputFor(fn_arg.r2, fn_arg.db, fn_result.r2)

\* release 100, full stroke 128, raw 101: 255/28 = 9.1 rounds to 9
C29_Witness ==
    /\ fn_result.done
    /\ fn_arg.db = [release |-> 100, full_stroke |-> 128]
    /\ fn_arg.l2 = 101
    /\ fn_arg.r2 = 102
    /\ fn_result.l2 = 9
    /\ fn_result.r2 = 18


\* ---------------------------------------------------------------------
\* The payload bytes carried by the prologue and body reports.
\* ---------------------------------------------------------------------

\* the offset just past the bytes of the last report
SentUpTo == last_report.offset + last_report.size

\* the 0x8000-byte page, counted from offset 256, that payload byte i lies in
PageOf(i) == (i - PrologueSize) \div PageSize

\* C30: in a flash the prologue reports carry the bytes [0, 256) and the body
\* reports the bytes [256, length), each report starting where the one before
\* ended, so every byte is sent once and in increasing order; every such
\* report carries 1 to 57 bytes, the number in its size byte; no body report
\* holds bytes of two 0x8000-byte pages counted from offset 256; verify is
\* sent only when the body has reached the end of the payload.
C30_ChunksPartitionPayload ==
    [][Sends =>
         /\ last_report'.phase = 0 =>
               /\ last_report'.offset =
                     IF last_report.phase = -1 THEN 0 ELSE SentUpTo
               /\ last_report'.size \in 1..ChunkSize
               /\ last_report'.offset + last_report'.size <= PrologueSize
         /\ last_report'.phase = 1 =>
               /\ fw_len > PrologueSize
               /\ last_report'.offset = SentUpTo
               /\ last_report.phase = 0 => SentUpTo = PrologueSize
               /\ last_report'.size \in 1..ChunkSize
               /\ last_report'.offset + last_report'.size <= fw_len
               /\ PageOf(last_report'.offset) =
                     PageOf(last_report'.offset + last_report'.size - 1)
         /\ last_report'.phase = 2 =>
               /\ last_report.phase = 1
               /\ SentUpTo = fw_len]_vars

\* a flash of 950272 bytes that ran to the end: 5 prologue reports, 28 pages
\* of 575 body reports and a last page of 571, verify and finalize
C30_Witness ==
    /\ fw_result = "Ok"
    /\ fw_len > PrologueSize
    /\ last_report.phase = 3
    /\ reports = 5 + 28 * 575 + 571 + 2

\* ---------------------------------------------------------------------
\* The device mutex of the daemon and the session slot behind it.
\* ---------------------------------------------------------------------

\* the handlers holding the guard `dev` of the last match arm
HandlersInside == {c \in Clients : handler_pc[c] = "locked"}

\* the reconnection thread holds its guard `dev`
ReconInside == recon_pc = "open"

\* C31: at most one thread, a handler between state.device.lock() and the
\* end of its match arm or the reconnection thread between lock() and the
\* end of its if block, is inside the critical section, and it is the owner
\* of the mutex; while a handler is inside, the slot changes only in the
\* step in which that handler finishes its command.
C31_SessionMutualExclusion ==
    [][/\ Cardinality(HandlersInside) + (IF ReconInside THEN 1 ELSE 0) <= 1
       /\ \A c \in HandlersInside : device_lock = HeldBy(c)
       /\ ReconInside => device_lock = HeldByRecon
       /\ \A c \in HandlersInside :
             device' # device =>
                /\ handler_pc'[c] = "read"
                /\ response'[c] = "Error"
                /\ device_lock' = Unlocked]_vars

\* a handler is dispatching on a session while another handler and the
\* reconnection thread wait for the mutex
C31_Witness ==
    /\ device = "Some"
    /\ recon_pc = "lock"
    /\ \E c \in Clients, d \in Clients :
          /\ handler_pc[c] = "locked"
          /\ device_lock = HeldBy(c)
          /\ handler_pc[d] = "lock"

\* a step of handler c that is none of: the release of
\* SetUpdateMode{active:true}, a dispatch answered Error
LeavesSlotAlone(c) ==
    /\ handler_pc'[c] # handler_pc[c] \/ response'[c] # response[c]
    /\ handler_pc[c] # "release"
    /\ ~(handler_pc[c] = "locked" /\ device = "Some" /\ response'[c] = "Error")

\* C32: the slot goes from empty to full only in the reconnection thread's
\* open step, which leaves a full slot as it is; it is emptied by the release
\* step of SetUpdateMode{active:true} and by a dispatch answered Error, and
\* both always leave it empty; every other handler step (Ping, a malformed
\* line, a gated command, NoDevice, a successful dispatch,
\* SetUpdateMode{active:false}) leaves it unchanged.
C32_SlotChangesThreeWays ==
    [][/\ (device = "None" /\ device' = "Some") =>
             (recon_pc = "open" /\ recon_pc' = "load")
       /\ (device = "Some" /\ device' = "None") =>
             \E c \in Clients :
                \/ handler_pc[c] = "release" /\ response'[c] = "Ok"
                \/ handler_pc[c] = "locked" /\ response'[c] = "Error"
       /\ (recon_pc = "open" /\ recon_pc' = "load" /\ device = "Some") =>
             device' = "Some"
       /\ \A c \in Clients :
             /\ (handler_pc[c] = "release" /\ handler_pc'[c] = "read") =>
                   device' = "None"
             /\ (handler_pc[c] = "locked" /\ device = "Some"
                   /\ handler_pc'[c] = "read" /\ response'[c] = "Error") =>
                   device' = "None"
             /\ LeavesSlotAlone(c) => device' = device]_vars

\* a session dropped after a dispatch answered Error and opened again
C32_Witness ==
    /\ device = "Some"
    /\ \E c \in Clients : response[c] = "Error" /\ error_of[c] = "device"

\* ---------------------------------------------------------------------
\* What an output report carries besides the fields of its operation.
\* ---------------------------------------------------------------------

\* indices, counted from 0, of the transport header and of the CRC trailer
HeaderBytes(bt) == IF bt THEN {0, 1, 2} \cup 74..77 ELSE {0}

\* the values valid_flag0, valid_flag1 and valid_flag2 may take in a report of
\* the operation: the bits of the fields it controls
OwnFlags(name) ==
    CASE name = "set_lightbar" ->
            {<<0, DS_OUTPUT_VALID_FLAG1_LIGHTBAR_CONTROL_ENABLE, 0>>}
      [] name = "set_lightbar_enabled" ->
            {<<0, 0, DS_OUTPUT_VALID_FLAG2_LIGHTBAR_SETUP_CONTROL_ENABLE>>}
      [] name = "set_player_leds" ->
            {<<0, DS_OUTPUT_VALID_FLAG1_PLAYER_INDICATOR_CONTROL_ENABLE, 0>>}
      [] name = "set_speaker" ->
            {<<DS_OUTPUT_VALID_FLAG0_AUDIO_CONTROL_ENABLE, 0, 0>>}
      [] name = "set_volume" ->
            {<<DS_OUTPUT_VALID_FLAG0_HEADPHONE_VOLUME_ENABLE
                 + DS_OUTPUT_VALID_FLAG0_SPEAKER_VOLUME_ENABLE, 0, 0>>}
      [] name = "set_vibration" ->
            {<<0, DS_OUTPUT_VALID_FLAG1_VIBRATION_ATTENUATION_ENABLE, 0>>}
      [] name = "set_mic" ->
            {<<0, DS_OUTPUT_VALID_FLAG1_POWER_SAVE_CONTROL_ENABLE, 0>>}
      [] name = "set_mic_led" ->
            {<<0, DS_OUTPUT_VALID_FLAG1_MIC_MUTE_LED_CONTROL_ENABLE, 0>>}
      [] name = "set_trigger_off" ->
            {<<DS_OUTPUT_VALID_FLAG0_RIGHT_TRIGGER_MOTOR_ENABLE
                 + DS_OUTPUT_VALID_FLAG0_LEFT_TRIGGER_MOTOR_ENABLE, 0, 0>>}
      [] name = "set_trigger_effect" ->
            {<<r + l, 0, 0>> :
                r \in {0, DS_OUTPUT_VALID_FLAG0_RIGHT_TRIGGER_MOTOR_ENABLE},
                l \in {0, DS_OUTPUT_VALID_FLAG0_LEFT_TRIGGER_MOTOR_ENABLE}}
      [] OTHER -> {}

\* offsets in the common body of the payload bytes of the fields whose valid
\* flags are set in flag0
TriggerPayload(flag0) ==
    (IF BitAnd(flag0, DS_OUTPUT_VALID_FLAG0_RIGHT_TRIGGER_MOTOR_ENABLE) # 0
     THEN 10..20 ELSE {})
    \cup
    (IF BitAnd(flag0, DS_OUTPUT_VALID_FLAG0_LEFT_TRIGGER_MOTOR_ENABLE) # 0
     THEN 21..31 ELSE {})

\* offsets in the common body of the payload bytes of the operation's fields
OwnPayload(name, flag0) ==
    CASE name = "set_lightbar" -> {44, 45, 46}
      [] name = "set_lightbar_enabled" -> {41}
      [] name = "set_player_leds" -> {43}
      [] name = "set_speaker" -> {7}
      [] name = "set_volume" -> {4, 5}
      [] name = "set_vibration" -> {36}
      [] name = "set_mic" -> {9}
      [] name = "set_mic_led" -> {8}
      [] name \in {"set_trigger_off", "set_trigger_effect"} ->
            TriggerPayload(flag0)
      [] OTHER -> {}

\* C33: in every output report handed to the HID write by a set_* operation
\* the three valid-flag bytes hold the bits of the fields of that operation
\* and no others, and every byte that is not zero lies in the transport
\* header, in a valid-flag byte, in the payload of a field whose flag is set
\* or (BT) in the CRC trailer, whatever ran on the session before; a
\* set_trigger_effect report with one side's flag clear has that side's mode
\* and parameter bytes zero.
C33_OnlyOwnFields ==
    handed # <<>> =>
       LET o == BodyOffset(is_bt)
           flag0 == At(handed, o)
       IN  /\ <<flag0, At(handed, o + 1), At(handed, o + 38)>>
                 \in OwnFlags(last_op.name)
           /\ \A i \in 0..(Len(handed) - 1) :
                 At(handed, i) # 0 =>
                    \/ i \in HeaderBytes(is_bt)
                    \/ i \in {o, o + 1, o + 38}
                    \/ i - o \in OwnPayload(last_op.name, flag0)

\* ---------------------------------------------------------------------
\* SpecWaitLoop: the whole loop of firmware_wait_status(expected), the
\* controller answering each get_feature_report as it likes.  polls counts
\* the iterations that slept 10 ms and went round again; the elapsed time
\* grows with them and is past the 30 s cap after MaxPolls of them.
\* ---------------------------------------------------------------------
InitWaitLoop ==
    /\ DaemonInit
    /\ plugged
    /\ FwIdle
    /\ AppIdle
    /\ ClientIdle
    /\ SessionIdle
    /\ PureIdle
    /\ PollIdle
    /\ OtherIdle
    /\ ws_expected \in ExpectedPhases
    /\ ws_answer \in DeviceAnswers
    /\ ws_out = Pending

\* one iteration: the elapsed check, get_feature_report, the phase check and
\* the match on the status; ws_answer is what the controller answers to this
\* iteration, and it is free to answer anything to the next
WaitLoopIteration ==
    /\ ws_out \in {Pending, "retry"}
    /\ \E timed_out \in TimeoutChoices :
          ws_out' = firmware_wait_status(ws_expected, timed_out, ws_answer)
    /\ polls' = IF ws_out' = "retry" THEN Min(polls + 1, MaxPolls) ELSE polls
    /\ ws_answer' \in DeviceAnswers
    /\ UNCHANGED ws_expected
    /\ UNCHANGED <<fw_len, fw_pid, sink, dl_len, dl_total, downloaded, fw_pc,
                   fw_result, offset, chunk_offset, delivered, delivered_by,
                   n_progress, reports, last_report, poll_done>>
    /\ UNCHANGED <<daemon_vars, session_vars, app_vars, client_vars,
                   harness_vars, pure_vars, poll_vars, other_vars>>

NextWaitLoop == WaitLoopIteration

SpecWaitLoop == InitWaitLoop /\ [][NextWaitLoop]_vars

\* the thread inside firmware_wait_status runs: get_feature_report and
\* sleep(10 ms) return, so an iteration that can be taken is taken
FairWaitLoop == WF_vars(WaitLoopIteration)

SpecWaitLoopFair == SpecWaitLoop /\ FairWaitLoop

\* firmware_wait_status has returned: Ok(()), a failure or the timeout
WaitReturned == ws_out \notin {Pending, "retry"}

\* C34: whatever the controller answers, a controller that answers a retry
\* status every time included, firmware_wait_status returns: done, a
\* failure, or the timeout once the cap has elapsed; the timeout is never
\* returned by the first iteration.
C34_WaitStatusTerminates ==
    /\ <>WaitReturned
    /\ [](ws_out = "Firmware update timeout" => polls >= 1)

\* the controller answered retry until the cap elapsed
C34_Witness ==
    /\ ws_out = "Firmware update timeout"
    /\ polls = MaxPolls
    /\ ws_expected = 1

\* ---------------------------------------------------------------------
\* SpecPolling: DS4UApp::start_input_polling, the thread it spawns (over the
\* daemon when self.ipc is Some, else on the frontend's own session with
\* try_lock) and stop_input_polling.  Other threads of the frontend take and
\* release the session mutex and switch update mode as they like.
\* ---------------------------------------------------------------------
InitPolling ==
    /\ DaemonInit
    /\ plugged
    /\ FwIdle
    /\ AppIdle
    /\ ClientIdle
    /\ SessionIdle
    /\ WaitIdle
    /\ PureIdle
    /\ OtherIdle
    /\ ipc \in BOOLEAN
    /\ input_poll_stop = FALSE
    /\ stop_flag = FALSE
    /\ poll_pc = "none"
    /\ ctrl_lock = "free"

PollFrame ==
    UNCHANGED <<daemon_vars, fw_vars, app_vars, client_vars, harness_vars,
                wait_vars, pure_vars, other_vars, is_bt,
                product_id>>

\* start_input_polling: a fresh stop flag, input_poll_stop = Some(flag), and
\* the thread of the variant
StartInputPolling ==
    /\ poll_pc = "none"
    /\ stop_flag' = FALSE
    /\ input_poll_stop' = TRUE
    /\ poll_pc' = IF ipc THEN "connect" ELSE "check"
    /\ UNCHANGED <<ipc, ctrl_lock, update_mode, input_report>>
    /\ PollFrame

\* stop_input_polling: flag.store(true) if input_poll_stop is Some, then
\* input_poll_stop = None
StopInputPolling ==
    /\ stop_flag' = IF input_poll_stop THEN TRUE ELSE stop_flag
    /\ input_poll_stop' = FALSE
    /\ UNCHANGED <<ipc, poll_pc, ctrl_lock, update_mode, input_report>>
    /\ PollFrame

\* IpcClient::connect(&path): Err(_) => return
ConnectOutcomes == {TRUE, FALSE}

PollConnect ==
    /\ poll_pc = "connect"
    /\ \E connected \in ConnectOutcomes :
          poll_pc' = IF connected THEN "check" ELSE "exited"
    /\ UNCHANGED <<ipc, input_poll_stop, stop_flag, ctrl_lock, update_mode,
                   input_report>>
    /\ PollFrame

\* while !stop_clone.load(Relaxed)
PollCheck ==
    /\ poll_pc = "check"
    /\ poll_pc' = IF stop_flag THEN "exited"
                  ELSE IF ipc THEN "request" ELSE "try_lock"
    /\ UNCHANGED <<ipc, input_poll_stop, stop_flag, ctrl_lock, update_mode,
                   input_report>>
    /\ PollFrame

\* ctrl.lock() in place of try_lock()
PollTryLock_blocking ==
    /\ poll_pc = "try_lock"
    /\ ctrl_lock = "free"
    /\ ctrl_lock' = "poll"
    /\ poll_pc' = "locked"
    /\ UNCHANGED <<ipc, input_poll_stop, stop_flag, update_mode, input_report>>
    /\ PollFrame
\* if let Ok(mut c) = ctrl.try_lock() { .. } else { sleep(8 ms) }
PollTryLock ==
    /\ poll_pc = "try_lock"
    /\ IF ctrl_lock = "free"
       THEN ctrl_lock' = "poll" /\ poll_pc' = "locked"
       ELSE poll_pc' = "sleep" /\ UNCHANGED ctrl_lock
    /\ UNCHANGED <<ipc, input_poll_stop, stop_flag, update_mode, input_report>>
    /\ PollFrame

\* c.get_input_state(): in update mode it returns at once, else it reads
\* with read_timeout(1000 ms); tx.send(state) on Ok; drop(c)
PollRead ==
    /\ poll_pc = "locked"
    /\ ctrl_lock = "poll"
    /\ \E rep \in InputReports :
          LET r == get_input_state(is_updating(update_mode), is_bt, rep)
          IN  input_report' = IF r.read THEN rep ELSE input_report
    /\ ctrl_lock' = "free"
    /\ poll_pc' = "check"
    /\ UNCHANGED <<ipc, input_poll_stop, stop_flag, update_mode>>
    /\ PollFrame

\* client.get_input_state(): the reply read within the 5 s read timeout, or
\* the timeout, or the closed connection
RequestOutcomes == {"InputState", "Error", "NoDevice", "timeout", "closed"}

\* Ok(state) => tx.send(state), Err(_) => sleep(8 ms)
PollRequest ==
    /\ poll_pc = "request"
    /\ \E got \in RequestOutcomes :
          poll_pc' = IF got = "InputState" THEN "check" ELSE "sleep"
    /\ UNCHANGED <<ipc, input_poll_stop, stop_flag, ctrl_lock, update_mode,
                   input_report>>
    /\ PollFrame

\* sleep(Duration::from_millis(8)) is over
PollSleep ==
    /\ poll_pc = "sleep"
    /\ poll_pc' = "check"
    /\ UNCHANGED <<ipc, input_poll_stop, stop_flag, ctrl_lock, update_mode,
                   input_report>>
    /\ PollFrame

polling_thread ==
    PollConnect \/ PollCheck \/ PollTryLock \/ PollRead \/ PollRequest
       \/ PollSleep

\* another thread of the frontend (a set_* of the UI, the flash worker) takes
\* the session mutex with lock() and gives it back
OtherLock ==
    /\ ctrl_lock = "free"
    /\ ctrl_lock' = "other"
    /\ UNCHANGED <<ipc, input_poll_stop, stop_flag, poll_pc, update_mode,
                   input_report>>
    /\ PollFrame

OtherUnlock ==
    /\ ctrl_lock = "other"
    /\ ctrl_lock' = "free"
    /\ UNCHANGED <<ipc, input_poll_stop, stop_flag, poll_pc, update_mode,
                   input_report>>
    /\ PollFrame

\* the session's update_mode flag is stored through update_mode_flag()
PollSetUpdateMode ==
    /\ update_mode' = ~update_mode
    /\ UNCHANGED <<ipc, input_poll_stop, stop_flag, poll_pc, ctrl_lock,
                   input_report>>
    /\ PollFrame

NextPolling ==
    \/ StartInputPolling
    \/ StopInputPolling
    \/ polling_thread
    \/ OtherLock
    \/ OtherUnlock
    \/ PollSetUpdateMode

SpecPolling == InitPolling /\ [][NextPolling]_vars

\* the polling thread is scheduled; nothing is assumed of the other threads,
\* which may keep the mutex or update mode for ever
FairPolling ==
    /\ WF_vars(PollConnect)
    /\ WF_vars(PollCheck)
    /\ WF_vars(PollTryLock)
    /\ WF_vars(PollRead)
    /\ WF_vars(PollRequest)
    /\ WF_vars(PollSleep)

SpecPollingFair == SpecPolling /\ FairPolling

\* C35: once stop_input_polling has stored true in the stop flag of a
\* polling thread, that thread exits, in both variants, whoever holds the
\* session mutex and whatever update mode is; the first load of the flag
\* after the store ends the loop.
C35_PollingStops ==
    /\ (stop_flag /\ poll_pc # "none") ~> (poll_pc = "exited")
    /\ [][(stop_flag /\ poll_pc = "check" /\ poll_pc' # poll_pc) =>
             poll_pc' = "exited"]_vars

\* the direct thread has exited while another thread holds the mutex and the
\* session is in update mode
C35_Witness ==
    /\ ~ipc
    /\ stop_flag
    /\ poll_pc = "exited"
    /\ ctrl_lock = "other"
    /\ update_mode

\* ---------------------------------------------------------------------
\* The Feedback parameters read back as the two little-endian integers.
\* ---------------------------------------------------------------------

\* bit i of a u16 and the 3-bit field i of a u32
ZoneBit(active_zones, i) == (active_zones \div 2 ^ i) % 2
ZoneStrength(strength_zones, i) == (strength_zones \div 2 ^ (3 * i)) % 8

\* C36: for every position p in 0..9 and strength s in 1..8 the Feedback
\* encoder gives ten parameter bytes: bytes 0-1 are active_zones
\* little-endian with exactly the bits p..9 set, bytes 2-5 are strength_zones
\* little-endian with (s - 1) & 7 in the bits [3i, 3i + 3) of every zone i in
\* p..9 and 0 in every other bit, and bytes 6-9 are zero.
C36_FeedbackZones ==
    (fn_result.done /\ fn_arg.position \in 0..9 /\ fn_arg.strength \in 1..8) =>
       LET b == fn_result.call.params
           p == fn_arg.position
           s == fn_arg.strength
       IN  /\ Len(b) = 10
           /\ \A k \in 1..10 : b[k] \in 0..255
           /\ b[2] < 4
           /\ b[6] < 64
           /\ \A i \in 0..9 :
                 /\ ZoneBit(b[1] + 256 * b[2], i) = IF i >= p THEN 1 ELSE 0
                 /\ ZoneStrength(b[3] + 256 * b[4] + 65536 * b[5]
                                    + 16777216 * b[6], i)
                       = IF i >= p THEN (s - 1) % 8 ELSE 0
           /\ \A k \in 7..10 : b[k] = 0

\* position 9, strength 8: only zone 9, with 7 in bits 27..29
C36_Witness ==
    /\ fn_result.done
    /\ fn_arg.position = 9
    /\ fn_arg.strength = 8
    /\ fn_result.call.params = <<0, 2, 0, 0, 0, 56, 0, 0, 0, 0>>

\* ---------------------------------------------------------------------
\* SpecPlayerLeds: set_player_leds(n) called with one n: u8 on a session of
\* either transport, in or out of update mode.
\* ---------------------------------------------------------------------
PlayerLedArgs == 0..255

InitPlayerLeds ==
    /\ DaemonInit
    /\ plugged
    /\ AppIdle
    /\ ClientIdle
    /\ WaitIdle
    /\ PollIdle
    /\ OtherIdle
    /\ is_bt \in BOOLEAN
    /\ product_id = DS_PID
    /\ update_mode \in BOOLEAN
    /\ input_report = ReadError
    /\ fw_len = 0
    /\ fw_pid = DS_PID
    /\ sink = "flash_file"
    /\ dl_len = 0
    /\ dl_total = 0
    /\ fw_pc = "idle"
    /\ LoopInit
    /\ HistoryInit
    /\ \E k \in ReportsBefore :
          /\ output_seq = IF is_bt THEN k ELSE 0
          /\ n_written = k
    /\ handed = <<>>
    /\ last_op = NoOp
    /\ hid_in_update = FALSE
    /\ n_ops = 0
    /\ \E n \in PlayerLedArgs : fn_arg = [fn |-> "set_player_leds", n |-> n]
    /\ fn_result = NotApplied

NextPlayerLeds == set_player_leds(fn_arg.n)

SpecPlayerLeds == InitPlayerLeds /\ [][NextPlayerLeds]_vars

\* C37: a call of set_player_leds(n) with n >= 8 returns the error, hands no
\* report to the HID write and leaves output_seq as it was; with n < 8 a
\* report that is handed over carries entry n of the 8-entry pattern table
\* in the player-indicator byte and the player-indicator flag.
C37_PlayerLedsChecked ==
    [][n_ops' = n_ops + 1 =>
         IF fn_arg.n >= 8
         THEN /\ ~last_op'.ok
              /\ last_op'.err = "Invalid player number"
              /\ ~last_op'.hid
              /\ handed' = <<>>
              /\ output_seq' = output_seq
              /\ n_written' = n_written
         ELSE handed' # <<>> =>
                 /\ At(handed', BodyOffset(is_bt) + 43)
                       = <<0, 4, 10, 21, 27, 31, 17, 14>>[fn_arg.n + 1]
                 /\ At(handed', BodyOffset(is_bt) + 1) = 16]_vars

\* player number 8 refused on a BT session whose sequence number stays 15
C37_Witness ==
    /\ fn_arg.n = 8
    /\ is_bt
    /\ n_ops = 1
    /\ last_op.name = "set_player_leds"
    /\ last_op.err = "Invalid player number"
    /\ output_seq = 15
    /\ handed = <<>>

(***************************************************************************)
(* The end of a connection                                                 *)
(***************************************************************************)
\* C38: when a client's connection is closed or a read fails, the handler
\* exits in a step that writes no response and leaves the session slot, its
\* lock and update_in_progress exactly as they were, whatever the client
\* sent before.
C38_ClosedConnectionLeavesState ==
    [][\A c \in Clients :
          (handler_pc[c] # "exited" /\ handler_pc'[c] = "exited") =>
              /\ handler_pc[c] = "read"
              /\ response' = response
              /\ device' = device
              /\ device_lock' = device_lock
              /\ update_in_progress' = update_in_progress]_vars

\* a client that set the gate has gone; the gate is still set and the slot
\* still empty
C38_Witness ==
    \E c \in Clients :
        /\ handler_pc[c] = "exited"
        /\ update_in_progress
        /\ device = "None"

(***************************************************************************)
(* A second frontend on the same daemon.  It is attached through the       *)
(* daemon (ipc is Some), never flashes, and asks for the latest firmware    *)
(* version; its DaemonManager holds a connection of its own.                *)
(***************************************************************************)
\* The connection of the second frontend's DaemonManager::new.
OtherClient == 2

OtherFrame ==
    UNCHANGED <<session_vars, fw_vars, app_vars, client_vars, harness_vars,
                wait_vars, pure_vars, poll_vars>>

\* check_for_controller with the daemon active: get_controller_info answers
\* Ok(Some(..)) when the slot holds a session and the gate is clear;
\* connect_via_daemon stores the product id and forgets the latest version.
\* The round trip on the new connection is one step.
OtherConnectViaDaemon ==
    /\ other_pc = "ui"
    /\ ~other_product_id
    /\ device = "Some"
    /\ device_lock = Unlocked
    /\ ~update_in_progress
    /\ other_product_id' = TRUE
    /\ latest_version' = FALSE
    /\ UNCHANGED <<other_pc, checking_latest, fetch_pc, latest_rx>>
    /\ UNCHANGED daemon_vars
    /\ OtherFrame

\* check_controller_connection: get_controller_info is not Ok(Some(..)), so
\* disconnect_controller forgets the product id
OtherDisconnect ==
    /\ other_pc = "ui"
    /\ other_product_id
    /\ device_lock = Unlocked
    /\ device = "None" \/ update_in_progress
    /\ other_product_id' = FALSE
    /\ UNCHANGED <<other_pc, latest_version, checking_latest, fetch_pc,
                   latest_rx>>
    /\ UNCHANGED daemon_vars
    /\ OtherFrame

\* The "Check" button (shown while connected, not checking and no latest
\* version known) calls fetch_latest_verision_async: a new channel, the
\* flag, and the thread
OtherFetchLatest ==
    /\ other_pc = "ui"
    /\ other_product_id
    /\ ~latest_version
    /\ ~checking_latest
    /\ checking_latest' = TRUE
    /\ latest_rx' = <<>>
    /\ fetch_pc' = "running"
    /\ UNCHANGED <<other_pc, other_product_id, latest_version>>
    /\ UNCHANGED daemon_vars
    /\ OtherFrame

\* downloader.get_latest_version(): Ok => send(LatestVersion(ver)),
\* Err(e) => send(Error("Version check failed: ..."))
FetchEvents == {"LatestVersion", "Error"}

FetchReturned ==
    /\ fetch_pc = "running"
    /\ \E update \in FetchEvents : latest_rx' = Append(latest_rx, update)
    /\ fetch_pc' = "exited"
    /\ UNCHANGED <<other_pc, other_product_id, latest_version, checking_latest>>
    /\ UNCHANGED daemon_vars
    /\ OtherFrame

\* check_firmware_progress of the second frontend reads one event.
\* LatestVersion(v): firmware_latest_version = Some(v), the flag is reset.
\* Error(e): the flag is reset and daemon_manager.set_update_in_progress(false)
\* is called.
OtherCheckFirmwareProgress ==
    /\ other_pc = "ui"
    /\ latest_rx # <<>>
    /\ latest_rx' = Tail(latest_rx)
    /\ checking_latest' = FALSE
    /\ IF Head(latest_rx) = "Error"
       THEN /\ send(OtherClient, set_update_mode(FALSE))
            /\ other_pc' = "gate_off"
            /\ UNCHANGED latest_version
       ELSE /\ latest_version' = TRUE
            /\ UNCHANGED other_pc
            /\ UNCHANGED daemon_vars
    /\ UNCHANGED <<other_product_id, fetch_pc>>
    /\ OtherFrame

\* set_update_in_progress(false) returns
OtherProgressCleared ==
    /\ other_pc = "gate_off"
    /\ recv(OtherClient)
    /\ other_pc' = "ui"
    /\ UNCHANGED <<other_product_id, latest_version, checking_latest, fetch_pc,
                   latest_rx>>
    /\ OtherFrame

other_frontend ==
    \/ OtherConnectViaDaemon
    \/ OtherDisconnect
    \/ OtherFetchLatest
    \/ FetchReturned
    \/ OtherCheckFirmwareProgress
    \/ OtherProgressCleared

\* The daemon's handlers of SetUpdateMode, one per connection.
GateHandlers ==
    \E c \in Clients :
        \/ HandleSetUpdateModeStore(c)
        \/ HandleSetUpdateModeRelease(c)
        \/ HandleSetUpdateModeClear(c)

(***************************************************************************)
(* SpecFrontends: the flashing frontend of SpecFlash, attached through the  *)
(* daemon and flashing a file (flash_file), next to the second frontend.    *)
(***************************************************************************)
InitFrontends == InitFlash /\ controller = "None"

\* The "Flash file" button: flash_file
FlashFileClicked == FlashClicked /\ sink' = "flash_file"

NextFrontends ==
    \/ FlashFileClicked
    \/ acquire_direct_fw
    \/ WorkerSetUpdateMode
    \/ WorkerUpdated
    \/ WorkerEmit
    \/ UpdateFirmwareChecks
    \/ check_firmware_progress
    \/ other_frontend
    \/ GateHandlers
    \/ device_connection_loop
    \/ Plug
    \/ Unplug

SpecFrontends == InitFrontends /\ [][NextFrontends]_vars

\* The frontend of connection c has sent SetUpdateMode{active:true} for a
\* flash attempt that has not ended: acquire_direct_fw is past its request,
\* or the session it opened is still held.
SentOn(c) == c = ManagerClient /\ (fe_pc = "open" \/ fw_used_daemon)

\* The flash of the first frontend is running on the session it opened.
FlashRunning == fw_used_daemon /\ firmware_updating

\* C39: a frontend sends SetUpdateMode{active:false} only to end a flash
\* attempt for which it itself sent SetUpdateMode{active:true}; hence the
\* gate set by a flashing frontend is not cleared while that flash is still
\* running.
C39_OffOnlyAfterOwnOn ==
    /\ [][\A c \in Clients :
            (request[c] # SetUpdateModeOff /\ request'[c] = SetUpdateModeOff)
                => SentOn(c)]_vars
    /\ [][(FlashRunning /\ update_in_progress) => update_in_progress']_vars

====
